---- MODULE Spec2Model ----
(***************************************************************************)
(* Crystallographic orientation algebra of DAMASK                          *)
(* (python/damask/_orientation.py on top of python/damask/rotation.py).    *)
(*                                                                         *)
(* Numbers.  The code computes in double precision; the model computes     *)
(* exactly.  A number a + b*sqrt(d) is held as the pair <<a, b>> of        *)
(* integers, where d = 2 for the cubic, tetragonal, orthorhombic and       *)
(* "none" classes and d = 3 for the hexagonal class (the only irrational   *)
(* numbers in the operator tables and the zone tests of those classes).    *)
(* A quaternion is held as a positive multiple of the unit quaternion the  *)
(* code stores: the operator tables are held in units of 1/2 (1.0 is       *)
(* <<2,0>>, 0.5 is <<1,0>>, 0.5*sqrt(d) is <<0,1>>) and an input           *)
(* quaternion by integer numerators over its norm.  Products, inverses,    *)
(* the sign normalisation and every zone / triangle test of the code are   *)
(* homogeneous in the quaternion, so they are computed on the multiple     *)
(* as the code computes them on the unit quaternion.  The tolerance        *)
(* tests iszero() (1e-12) are exact tests for zero.                        *)
(*                                                                         *)
(* Names.  _orientation.py writes as_Rodrigues, in_FZ, in_SST,             *)
(* symmetry_operations and the operator @ for what rotation.py defines as  *)
(* asRodrigues, Symmetry.inFZ, Symmetry.inSST, symmetryOperations and      *)
(* Rotation.__mul__; the model uses the definitions of rotation.py.        *)
(***************************************************************************)
EXTENDS Integers, Sequences, FiniteSets, TLC

(* ------------------------------ bounds -------------------------------- *)
\* largest sum of the absolute numerators of an input quaternion
MaxSum == 3
\* largest number of orientations in a batch or in a list to average
MaxList == 2

(* ------------------------ exact arithmetic ---------------------------- *)
Sgn(n) == IF n > 0 THEN 1 ELSE IF n < 0 THEN -1 ELSE 0

\* sign of a + b*sqrt(d)
RSign(d, p) ==
  LET a == p[1]
      b == p[2]
  IN  IF a >= 0 /\ b >= 0 THEN (IF a = 0 /\ b = 0 THEN 0 ELSE 1)
      ELSE IF a <= 0 /\ b <= 0 THEN -1
      ELSE IF a > 0 THEN (IF a * a > d * b * b THEN 1 ELSE -1)
      ELSE (IF d * b * b > a * a THEN 1 ELSE -1)

RZero == <<0, 0>>
RInt(n) == <<n, 0>>
RAdd(p, q) == <<p[1] + q[1], p[2] + q[2]>>
RSub(p, q) == <<p[1] - q[1], p[2] - q[2]>>
RNeg(p) == <<0 - p[1], 0 - p[2]>>
RMul(d, p, q) == <<p[1] * q[1] + d * p[2] * q[2], p[1] * q[2] + p[2] * q[1]>>
RScale(n, p) == <<n * p[1], n * p[2]>>
RAbs(d, p) == IF RSign(d, p) < 0 THEN RNeg(p) ELSE p
\* p >= q
RGE(d, p, q) == RSign(d, RSub(p, q)) >= 0
\* sqrt(d) * p
RRoot(d, p) == <<d * p[2], p[1]>>

\* P = -1
P == -1

(* ------------------------- symmetry classes --------------------------- *)
\* Symmetry.lattices; None is written "none"
SymmetryLattices == <<"none", "orthorhombic", "tetragonal", "hexagonal", "cubic">>

\* radicand of the irrational numbers of a class
Radicand(sym) == IF sym = "hexagonal" THEN 3 ELSE 2

symQuats_cubic ==
  << << <<2,0>>, <<0,0>>, <<0,0>>, <<0,0>> >>,
     << <<0,0>>, <<2,0>>, <<0,0>>, <<0,0>> >>,
     << <<0,0>>, <<0,0>>, <<2,0>>, <<0,0>> >>,
     << <<0,0>>, <<0,0>>, <<0,0>>, <<2,0>> >>,
     << <<0,0>>, <<0,0>>, <<0,1>>, <<0,1>> >>,
     << <<0,0>>, <<0,0>>, <<0,1>>, <<0,-1>> >>,
     << <<0,0>>, <<0,1>>, <<0,0>>, <<0,1>> >>,
     << <<0,0>>, <<0,1>>, <<0,0>>, <<0,-1>> >>,
     << <<0,0>>, <<0,1>>, <<0,-1>>, <<0,0>> >>,
     << <<0,0>>, <<0,-1>>, <<0,-1>>, <<0,0>> >>,
     << <<1,0>>, <<1,0>>, <<1,0>>, <<1,0>> >>,
     << <<-1,0>>, <<1,0>>, <<1,0>>, <<1,0>> >>,
     << <<-1,0>>, <<1,0>>, <<1,0>>, <<-1,0>> >>,
     << <<-1,0>>, <<1,0>>, <<-1,0>>, <<1,0>> >>,
     << <<-1,0>>, <<-1,0>>, <<1,0>>, <<1,0>> >>,
     << <<-1,0>>, <<-1,0>>, <<1,0>>, <<-1,0>> >>,
     << <<-1,0>>, <<-1,0>>, <<-1,0>>, <<1,0>> >>,
     << <<-1,0>>, <<1,0>>, <<-1,0>>, <<-1,0>> >>,
     << <<0,-1>>, <<0,0>>, <<0,0>>, <<0,1>> >>,
     << <<0,1>>, <<0,0>>, <<0,0>>, <<0,1>> >>,
     << <<0,-1>>, <<0,0>>, <<0,1>>, <<0,0>> >>,
     << <<0,-1>>, <<0,0>>, <<0,-1>>, <<0,0>> >>,
     << <<0,-1>>, <<0,1>>, <<0,0>>, <<0,0>> >>,
     << <<0,-1>>, <<0,-1>>, <<0,0>>, <<0,0>> >> >>

symQuats_hexagonal ==
  << << <<2,0>>, <<0,0>>, <<0,0>>, <<0,0>> >>,
     << <<0,-1>>, <<0,0>>, <<0,0>>, <<-1,0>> >>,
     << <<1,0>>, <<0,0>>, <<0,0>>, <<0,1>> >>,
     << <<0,0>>, <<0,0>>, <<0,0>>, <<2,0>> >>,
     << <<-1,0>>, <<0,0>>, <<0,0>>, <<0,1>> >>,
     << <<0,-1>>, <<0,0>>, <<0,0>>, <<1,0>> >>,
     << <<0,0>>, <<2,0>>, <<0,0>>, <<0,0>> >>,
     << <<0,0>>, <<0,-1>>, <<1,0>>, <<0,0>> >>,
     << <<0,0>>, <<1,0>>, <<0,-1>>, <<0,0>> >>,
     << <<0,0>>, <<0,0>>, <<2,0>>, <<0,0>> >>,
     << <<0,0>>, <<-1,0>>, <<0,-1>>, <<0,0>> >>,
     << <<0,0>>, <<0,1>>, <<1,0>>, <<0,0>> >> >>

symQuats_tetragonal ==
  << << <<2,0>>, <<0,0>>, <<0,0>>, <<0,0>> >>,
     << <<0,0>>, <<2,0>>, <<0,0>>, <<0,0>> >>,
     << <<0,0>>, <<0,0>>, <<2,0>>, <<0,0>> >>,
     << <<0,0>>, <<0,0>>, <<0,0>>, <<2,0>> >>,
     << <<0,0>>, <<0,1>>, <<0,1>>, <<0,0>> >>,
     << <<0,0>>, <<0,-1>>, <<0,1>>, <<0,0>> >>,
     << <<0,1>>, <<0,0>>, <<0,0>>, <<0,1>> >>,
     << <<0,-1>>, <<0,0>>, <<0,0>>, <<0,1>> >> >>

symQuats_orthorhombic ==
  << << <<2,0>>, <<0,0>>, <<0,0>>, <<0,0>> >>,
     << <<0,0>>, <<2,0>>, <<0,0>>, <<0,0>> >>,
     << <<0,0>>, <<0,0>>, <<2,0>>, <<0,0>> >>,
     << <<0,0>>, <<0,0>>, <<0,0>>, <<2,0>> >> >>

symQuats_none ==
  << << <<2,0>>, <<0,0>>, <<0,0>>, <<0,0>> >> >>

\* the table symQuats of a class
symQuats(sym) ==
  CASE sym = "cubic"        -> symQuats_cubic
    [] sym = "hexagonal"    -> symQuats_hexagonal
    [] sym = "tetragonal"   -> symQuats_tetragonal
    [] sym = "orthorhombic" -> symQuats_orthorhombic
    [] OTHER                -> symQuats_none

\* mutant of symmetryOperations: the default range stops one operator short
symmetryOperations_oneShort(sym, members) ==
  LET all    == [n \in 1..(Len(symQuats(sym)) - 1) |-> n - 1]
      sel    == IF members.list /\ members.idx = <<>> THEN all ELSE members.idx
      symOps == [n \in 1..Len(sel) |-> symQuats(sym)[sel[n] + 1]]
  IN  IF members.list THEN symOps ELSE symOps[1]

\* Symmetry.symmetryOperations(members).  members is [list, idx]: a list of
\* (0-based) indices, or a single index when list is FALSE.  The result is a
\* list of rotations, or one rotation when members is not iterable.
symmetryOperations(sym, members) ==
  LET all    == [n \in 1..Len(symQuats(sym)) |-> n - 1]
      sel    == IF members.list /\ members.idx = <<>> THEN all ELSE members.idx
      symOps == [n \in 1..Len(sel) |-> symQuats(sym)[sel[n] + 1]]
  IN  IF members.list THEN symOps ELSE symOps[1]

(* ------------------------------ Rotation ------------------------------ *)
Vec(q) == <<q[2], q[3], q[4]>>
Dot(d, u, v) == RAdd(RAdd(RMul(d, u[1], v[1]), RMul(d, u[2], v[2])), RMul(d, u[3], v[3]))
Cross(d, u, v) ==
  << RSub(RMul(d, u[2], v[3]), RMul(d, u[3], v[2])),
     RSub(RMul(d, u[3], v[1]), RMul(d, u[1], v[3])),
     RSub(RMul(d, u[1], v[2]), RMul(d, u[2], v[1])) >>

\* Rotation.standardize
standardize(d, q) ==
  IF RSign(d, q[1]) < 0 THEN <<RNeg(q[1]), RNeg(q[2]), RNeg(q[3]), RNeg(q[4])>> ELSE q

\* Rotation.inverse: the value the receiver holds afterwards
inverse(q) == <<q[1], RNeg(q[2]), RNeg(q[3]), RNeg(q[4])>>

\* mutant of inversed: the copy is returned as it is
inversed_copyOnly(q) == q

\* Rotation.inversed: inverse of a copy
inversed(q) == inverse(q)

\* mutant of mul: the cross product of the vector parts is left out
mul_noCross(d, self, other) ==
  LET self_q  == self[1]
      self_p  == Vec(self)
      other_q == other[1]
      other_p == Vec(other)
      R == << RSub(RMul(d, self_q, other_q), Dot(d, self_p, other_p)),
              RAdd(RMul(d, self_q, other_p[1]), RMul(d, other_q, self_p[1])),
              RAdd(RMul(d, self_q, other_p[2]), RMul(d, other_q, self_p[2])),
              RAdd(RMul(d, self_q, other_p[3]), RMul(d, other_q, self_p[3])) >>
  IN  standardize(d, R)

\* Rotation.__mul__ with a Rotation
mul(d, self, other) ==
  LET self_q  == self[1]
      self_p  == Vec(self)
      other_q == other[1]
      other_p == Vec(other)
      c       == Cross(d, self_p, other_p)
      R == << RSub(RMul(d, self_q, other_q), Dot(d, self_p, other_p)),
              RAdd(RAdd(RMul(d, self_q, other_p[1]), RMul(d, other_q, self_p[1])), RScale(P, c[1])),
              RAdd(RAdd(RMul(d, self_q, other_p[2]), RMul(d, other_q, self_p[2])), RScale(P, c[2])),
              RAdd(RAdd(RMul(d, self_q, other_p[3]), RMul(d, other_q, self_p[3])), RScale(P, c[3])) >>
  IN  standardize(d, R)

\* mutant of mulEffect: the product is built in the array of self and
\* standardized there
mulEffect_inPlace(d, self, other) ==
  [self |-> mul(d, self, other), other |-> other, R |-> mul(d, self, other)]

\* what self*other leaves behind: the quaternions the two operands hold
\* afterwards and the quaternion of the new object R that is returned.
\* Lines 84-87 read the operands, line 88 builds R from a new array, line
\* 90 standardizes R.
mulEffect(d, self, other) ==
  [self |-> self, other |-> other, R |-> mul(d, self, other)]

\* Rotation.__mul__ with a 3-vector
rotate(d, q, other) ==
  LET A == RSub(RMul(d, q[1], q[1]), Dot(d, Vec(q), Vec(q)))
      B == RScale(2, Dot(d, Vec(q), other))
      C == RScale(2 * P, q[1])
  IN  << RAdd(RAdd(RMul(d, A, other[1]), RMul(d, B, q[2])),
              RMul(d, C, RSub(RMul(d, q[3], other[3]), RMul(d, q[4], other[2])))),
         RAdd(RAdd(RMul(d, A, other[2]), RMul(d, B, q[3])),
              RMul(d, C, RSub(RMul(d, q[4], other[1]), RMul(d, q[2], other[3])))),
         RAdd(RAdd(RMul(d, A, other[3]), RMul(d, B, q[4])),
              RMul(d, C, RSub(RMul(d, q[2], other[2]), RMul(d, q[3], other[1])))) >>

\* Rotation.asRodrigues(vector=True) = ro[:3]*ro[3] of qu2ro.  The result is
\* [fin, num, den].  fin: the components are num[i]/den with den > 0.
\* Not fin (real part zero, ro[3] = inf): component i is qu[i]*inf, held as
\* the sign of qu[i]: 1 is +inf, -1 is -inf, 0 is nan (0*inf).
asRodrigues(d, qu) ==
  IF RSign(d, qu[1]) = 0
    THEN [fin |-> FALSE,
          num |-> <<RInt(RSign(d, qu[2])), RInt(RSign(d, qu[3])), RInt(RSign(d, qu[4]))>>,
          den |-> RZero]
  ELSE IF RSign(d, qu[2]) = 0 /\ RSign(d, qu[3]) = 0 /\ RSign(d, qu[4]) = 0
    THEN [fin |-> TRUE, num |-> <<RZero, RZero, RScale(0, RInt(P))>>, den |-> RInt(1)]
  ELSE IF RSign(d, qu[1]) > 0
    THEN [fin |-> TRUE, num |-> Vec(qu), den |-> qu[1]]
  ELSE [fin |-> TRUE, num |-> Vec(inverse(qu)), den |-> RNeg(qu[1])]

(* ------------------------------ Symmetry ------------------------------ *)
\* Symmetry.__eq__ as used by != in disorientation
SymmetryEq(symA, symB) == symA = symB

\* mutant of inFZ: in the last tetragonal comparison the two constants
\* have changed places (1 >= Rabs[2] + sqrt 2)
inFZ_tetragonalSwapped(sym, ro) ==
  LET d  == Radicand(sym)
      w  == ro.den
      R0 == RAbs(d, ro.num[1])
      R1 == RAbs(d, ro.num[2])
      R2 == RAbs(d, ro.num[3])
      root == RRoot(d, w)
  IN  IF ~ro.fin /\ (\E n \in 1..3 : ro.num[n] = RInt(1)) THEN FALSE
      ELSE IF sym = "cubic" THEN
             /\ ro.fin
             /\ RGE(d, RSub(root, w), R0)
             /\ RGE(d, RSub(root, w), R1)
             /\ RGE(d, RSub(root, w), R2)
             /\ RGE(d, w, RAdd(RAdd(R0, R1), R2))
      ELSE IF sym = "hexagonal" THEN
             /\ ro.fin
             /\ RGE(d, w, R0) /\ RGE(d, w, R1) /\ RGE(d, w, R2)
             /\ RGE(d, RScale(2, w), RAdd(RRoot(d, R0), R1))
             /\ RGE(d, RScale(2, w), RAdd(RRoot(d, R1), R0))
             /\ RGE(d, RScale(2, w), RAdd(root, R2))
      ELSE IF sym = "tetragonal" THEN
             /\ ro.fin
             /\ RGE(d, w, R0) /\ RGE(d, w, R1)
             /\ RGE(d, root, RAdd(R0, R1))
             /\ RGE(d, w, RAdd(R2, root))
      ELSE IF sym = "orthorhombic" THEN
             /\ ro.fin
             /\ RGE(d, w, R0) /\ RGE(d, w, R1) /\ RGE(d, w, R2)
      ELSE TRUE

\* Symmetry.inFZ.  A vector with a component +inf is outside for every
\* class.  Otherwise, when the vector is not finite every component is
\* -inf or nan, Rabs is inf or nan, and the first comparison of each of the
\* four classes is false; the class None has no comparison.
inFZ(sym, ro) ==
  LET d  == Radicand(sym)
      w  == ro.den
      R0 == RAbs(d, ro.num[1])
      R1 == RAbs(d, ro.num[2])
      R2 == RAbs(d, ro.num[3])
      root == RRoot(d, w)
  IN  IF ~ro.fin /\ (\E n \in 1..3 : ro.num[n] = RInt(1)) THEN FALSE
      ELSE IF sym = "cubic" THEN
             /\ ro.fin
             /\ RGE(d, RSub(root, w), R0)
             /\ RGE(d, RSub(root, w), R1)
             /\ RGE(d, RSub(root, w), R2)
             /\ RGE(d, w, RAdd(RAdd(R0, R1), R2))
      ELSE IF sym = "hexagonal" THEN
             /\ ro.fin
             /\ RGE(d, w, R0) /\ RGE(d, w, R1) /\ RGE(d, w, R2)
             /\ RGE(d, RScale(2, w), RAdd(RRoot(d, R0), R1))
             /\ RGE(d, RScale(2, w), RAdd(RRoot(d, R1), R0))
             /\ RGE(d, RScale(2, w), RAdd(root, R2))
      ELSE IF sym = "tetragonal" THEN
             /\ ro.fin
             /\ RGE(d, w, R0) /\ RGE(d, w, R1)
             /\ RGE(d, root, RAdd(R0, R1))
             /\ RGE(d, root, RAdd(R2, w))
      ELSE IF sym = "orthorhombic" THEN
             /\ ro.fin
             /\ RGE(d, w, R0) /\ RGE(d, w, R1) /\ RGE(d, w, R2)
      ELSE TRUE

\* x >= y for two components of a Rodrigues vector (IEEE comparison when the
\* vector is not finite: nan compares false)
RoGE(d, ro, x, y) ==
  IF ro.fin THEN RGE(d, x, y)
  ELSE x # RZero /\ y # RZero /\ x[1] >= y[1]

\* x >= 0.0 for a component of a Rodrigues vector
RoGE0(d, ro, x) ==
  IF ro.fin THEN RSign(d, x) >= 0 ELSE x = RInt(1)

\* Symmetry.inDisorientationSST (epsilon = 0.0)
inDisorientationSST(sym, ro) ==
  LET d == Radicand(sym)
      R == ro.num
  IN  IF sym = "cubic" THEN
             RoGE(d, ro, R[1], R[2]) /\ RoGE(d, ro, R[2], R[3]) /\ RoGE0(d, ro, R[3])
      ELSE IF sym = "hexagonal" THEN
             /\ RoGE(d, ro, R[1], IF ro.fin THEN RRoot(d, R[2]) ELSE R[2])
             /\ RoGE0(d, ro, R[2]) /\ RoGE0(d, ro, R[3])
      ELSE IF sym = "tetragonal" THEN
             RoGE(d, ro, R[1], R[2]) /\ RoGE0(d, ro, R[2]) /\ RoGE0(d, ro, R[3])
      ELSE IF sym = "orthorhombic" THEN
             RoGE0(d, ro, R[1]) /\ RoGE0(d, ro, R[2]) /\ RoGE0(d, ro, R[3])
      ELSE TRUE

\* the matrices basis['improper'] and basis['proper'] of Symmetry.inSST.
\* The third row of the two cubic matrices is held in units of sqrt(3)
\* (sqrt(3) is not a number of the cubic class): its component keeps its
\* sign and its exact value.
basis(sym, which) ==
  LET z == RZero
      o == RInt(1)
      m == RInt(-1)
      s == <<0, 1>>
      t == <<0, -1>>
  IN  CASE sym = "cubic" ->
             IF which = "improper"
               THEN << <<m, z, o>>, <<s, t, z>>, <<z, o, z>> >>
               ELSE << <<z, m, o>>, <<t, s, z>>, <<o, z, z>> >>
        [] sym = "hexagonal" ->
             IF which = "improper"
               THEN << <<z, z, o>>, <<o, t, z>>, <<z, RInt(2), z>> >>
               ELSE << <<z, z, o>>, <<m, s, z>>, <<s, m, z>> >>
        [] sym = "tetragonal" ->
             IF which = "improper"
               THEN << <<z, z, o>>, <<o, m, z>>, <<z, s, z>> >>
               ELSE << <<z, z, o>>, <<m, o, z>>, <<s, z, z>> >>
        [] OTHER ->
             IF which = "improper"
               THEN << <<z, z, o>>, <<o, z, z>>, <<z, o, z>> >>
               ELSE << <<z, z, o>>, <<m, z, z>>, <<z, o, z>> >>

\* np.dot(basis, v)
MatVec(d, M, v) == <<Dot(d, M[1], v), Dot(d, M[2], v), Dot(d, M[3], v)>>

\* np.all(theComponents >= 0.0)
AllNonNegative(d, c) == \A n \in 1..3 : RSign(d, c[n]) >= 0

\* Symmetry.inSST(vector, proper, color=True): [inSST, rgb].  np.around(.,12)
\* leaves the sign of an exact component as it is.  rgb is the image of
\* theComponents under the one-to-one map of lines 704-706 (square root of
\* the normalised components, divided by the largest); the model holds
\* theComponents in its place, and the zero vector outside the triangle.
inSST(sym, vector, proper) ==
  LET d        == Radicand(sym)
      improper == MatVec(d, basis(sym, "improper"), vector)
      properC  == MatVec(d, basis(sym, "proper"), vector)
      v        == <<vector[1], vector[2], RAbs(d, vector[3])>>
      folded   == MatVec(d, basis(sym, "improper"), v)
      theComponents ==
        IF proper THEN (IF AllNonNegative(d, improper) THEN improper ELSE properC)
        ELSE folded
      in       == AllNonNegative(d, theComponents)
  IN  IF sym = "none" THEN [inSST |-> TRUE, rgb |-> <<RZero, RZero, RZero>>]
      ELSE [inSST |-> in,
            rgb   |-> IF in THEN theComponents ELSE <<RZero, RZero, RZero>>]

(* ------------------------------- Lattice ------------------------------ *)
\* the keys of Lattice.lattices
Lattices == {"triclinic", "bct", "hex", "fcc", "bcc"}

\* Lattice.lattices[lattice]['symmetry']
symmetry(lattice) ==
  CASE lattice = "bct" -> "tetragonal"
    [] lattice = "hex" -> "hexagonal"
    [] lattice = "fcc" -> "cubic"
    [] lattice = "bcc" -> "cubic"
    [] OTHER           -> "none"

(* ----------------------------- Orientation ---------------------------- *)
\* An orientation is [rotation, lattice].

\* index (from 1) at which "for n, x in enumerate(xs): if test(x): break"
\* leaves the loop: the first n with flags[n], else the last n
BreakAt(flags) ==
  IF \E n \in 1..Len(flags) : flags[n]
    THEN CHOOSE n \in 1..Len(flags) : flags[n] /\ \A m \in 1..(n - 1) : ~flags[m]
    ELSE Len(flags)

\* Orientation.equivalent: the rotations s@r, one per symmetry operation
equivalent(self) ==
  LET sym == symmetry(self.lattice)
      s   == symQuats(sym)
  IN  [e \in 1..Len(s) |-> mul(Radicand(sym), s[e], self.rotation)] \o <<>>

\* Orientation.in_FZ()
in_FZ(self) ==
  inFZ(symmetry(self.lattice), asRodrigues(Radicand(symmetry(self.lattice)), self.rotation))

\* truth value of the expression self.in_FZ in disorientation: the bound
\* method itself, which is not called
in_FZ_method(self) == TRUE

\* the test of lines 72-73
breakerTest(self, other, SST, r) ==
  /\ in_FZ_method(self)
  /\ (~SST \/ inDisorientationSST(symmetry(other.lattice),
                                  asRodrigues(Radicand(symmetry(other.lattice)), r)))

\* mutant of kLoop: r is tested before it is inverted
kLoop_testBeforeInverse(self, other, SST, r) ==
  LET r1 == inverse(r)
  IN  IF breakerTest(self, other, SST, r)
        THEN [r |-> r, k |-> 0, breaker |-> TRUE]
        ELSE [r |-> r1, k |-> 1, breaker |-> breakerTest(self, other, SST, r1)]

\* for k in range(2), lines 70-74; r is inverted in place before each test
kLoop(self, other, SST, r) ==
  LET r0 == inverse(r)
      r1 == inverse(r0)
  IN  IF breakerTest(self, other, SST, r0)
        THEN [r |-> r0, k |-> 0, breaker |-> TRUE]
        ELSE [r |-> r1, k |-> 1, breaker |-> breakerTest(self, other, SST, r1)]

\* for j,sB in enumerate(otherSymEqs), lines 67-75, from index j on
RECURSIVE jLoop(_, _, _, _, _, _)
jLoop(self, other, SST, aInv, otherSymEqs, j) ==
  LET b   == otherSymEqs[j + 1]
      r   == mul(Radicand(symmetry(self.lattice)), b, aInv)
      res == kLoop(self, other, SST, r)
  IN  IF res.breaker \/ j + 1 = Len(otherSymEqs)
        THEN [r |-> res.r, j |-> j, k |-> res.k, breaker |-> res.breaker]
        ELSE jLoop(self, other, SST, aInv, otherSymEqs, j + 1)

\* for i,sA in enumerate(mySymEqs), lines 65-76, from index i on
RECURSIVE iLoop(_, _, _, _, _, _)
iLoop(self, other, SST, mySymEqs, otherSymEqs, i) ==
  LET aInv == inversed(mySymEqs[i + 1])
      res  == jLoop(self, other, SST, aInv, otherSymEqs, 0)
  IN  IF res.breaker \/ i + 1 = Len(mySymEqs)
        THEN [r |-> res.r, i |-> i, j |-> res.j, k |-> res.k, breaker |-> res.breaker]
        ELSE iLoop(self, other, SST, mySymEqs, otherSymEqs, i + 1)

\* mutant of sameSymmetry: the lattices are compared, not their symmetries
sameSymmetry_byLattice(self, other) == self.lattice = other.lattice

\* the negation of the test of line 59
sameSymmetry(self, other) ==
  SymmetryEq(symmetry(self.lattice), symmetry(other.lattice))

\* mySymEqs, line 62
mySymEqs(self, SST) == IF SST THEN equivalent(self) ELSE <<equivalent(self)[1]>>

\* the local variables of Orientation.disorientation at its return
disorientationLocals(self, other, SST) ==
  iLoop(self, other, SST, mySymEqs(self, SST), equivalent(other), 0)

\* mutant of disorientationReturn: a search nothing stopped is an error
disorientationReturn_raiseWhenExhausted(me, symmetries, l) ==
  IF ~l.breaker THEN [kind |-> "ValueError"]
  ELSE IF symmetries
    THEN [kind |-> "ok", r |-> l.r, lattice |-> me.lattice,
          i |-> l.i, j |-> l.j, inv |-> (l.k = 1)]
    ELSE [kind |-> "ok", r |-> l.r]

\* the return value of disorientation from its locals l
disorientationReturn(me, symmetries, l) ==
  IF symmetries
    THEN [kind |-> "ok", r |-> l.r, lattice |-> me.lattice,
          i |-> l.i, j |-> l.j, inv |-> (l.k = 1)]
    ELSE [kind |-> "ok", r |-> l.r]

\* Orientation.disorientation: what it returns or raises
disorientation(self, other, SST, symmetries) ==
  IF ~sameSymmetry(self, other)
    THEN [kind |-> "NotImplementedError"]
    ELSE disorientationReturn(self, symmetries, disorientationLocals(self, other, SST))

\* for me in self.equivalent, lines 147-148, from the n-th equivalent on:
\* the value of me after the loop
RECURSIVE reducedLoop(_, _, _)
reducedLoop(self, eq, n) ==
  IF in_FZ([rotation |-> eq[n], lattice |-> self.lattice]) \/ n = Len(eq)
    THEN eq[n]
    ELSE reducedLoop(self, eq, n + 1)

\* Orientation.reduced
reduced(self) ==
  [rotation |-> reducedLoop(self, equivalent(self), 1), lattice |-> self.lattice]

\* the rows of an array selected by a boolean mask, in row order
Masked(rows, mask) ==
  LET idx == SelectSeq([n \in 1..Len(rows) |-> n], LAMBDA n : mask[n])
  IN  [m \in 1..Len(idx) |-> rows[idx[m]]]

\* number of TRUE entries (sum(boolean))
CountTrue(mask) == Cardinality({n \in 1..Len(mask) : mask[n]})

\* Orientation.reduced_vec of a batch of rotations with one lattice: the
\* rows of quat are the equivalents of the first orientation, then those of
\* the second, ... (reshape with order='F'); boolean is in_FZ of the rows.
reduced_vec(rotations, lattice) ==
  LET r        == Len(rotations)
      num_equi == Len(symQuats(symmetry(lattice)))
      row(n)   == [l |-> ((n - 1) \div num_equi) + 1, e |-> ((n - 1) % num_equi) + 1]
      equi     == [l \in 1..r |->
                     equivalent([rotation |-> rotations[l], lattice |-> lattice])] \o <<>>
      quat     == [n \in 1..(r * num_equi) |-> equi[row(n).l][row(n).e]]
      boolean  == [n \in 1..(r * num_equi) |->
                     in_FZ([rotation |-> quat[n], lattice |-> lattice])] \o <<>>
      block(l) == [e \in 1..num_equi |-> boolean[(l - 1) * num_equi + e]]
      index    == [l \in 1..r |-> BreakAt(block(l)) + (l - 1) * num_equi]
  IN  IF CountTrue(boolean) = r
        THEN [kind |-> "ok", warned |-> FALSE, rotation |-> Masked(quat, boolean),
              lattice |-> lattice]
      ELSE IF \E l \in 1..r : CountTrue(block(l)) = 0
        THEN [kind |-> "IndexError", warned |-> TRUE]
      ELSE [kind |-> "ok", warned |-> TRUE,
            rotation |-> [l \in 1..r |-> quat[index[l]]], lattice |-> lattice]

\* for i,o in enumerate(self.equivalent), lines 159-161, from index i on:
\* the values of pole and i after the loop
RECURSIVE inversePoleLoop(_, _, _, _, _)
inversePoleLoop(self, axis, proper, eq, i) ==
  LET sym  == symmetry(self.lattice)
      pole == rotate(Radicand(sym), eq[i + 1], axis)
  IN  IF inSST(sym, pole, proper).inSST \/ i + 1 = Len(eq)
        THEN [pole |-> pole, i |-> i]
        ELSE inversePoleLoop(self, axis, proper, eq, i + 1)

\* mutant of inversePole: the proper flag is not handed to the triangle test
inversePole_properDropped(self, axis, proper, SST) ==
  IF SST THEN inversePoleLoop(self, axis, FALSE, equivalent(self), 0)
         ELSE [pole |-> rotate(Radicand(symmetry(self.lattice)), self.rotation, axis),
               i    |-> 0]

\* Orientation.inversePole: (pole, index)
inversePole(self, axis, proper, SST) ==
  IF SST THEN inversePoleLoop(self, axis, proper, equivalent(self), 0)
         ELSE [pole |-> rotate(Radicand(symmetry(self.lattice)), self.rotation, axis),
               i    |-> 0]

\* mutant of IPF_step: every equivalent in the triangle overwrites c
IPF_step_overwrite(in_SST, color, s, st) ==
  LET write == in_SST[s + 1]
  IN  [found |-> in_SST[s + 1] \/ st.found,
       c     |-> IF write THEN color[s + 1] ELSE st.c,
       src   |-> IF write THEN s ELSE st.src]

\* one pass of the loop of lines 177-179; st is [found, c, src] where src is
\* the index s of the color[s] that c was last taken from (-1: none yet)
IPF_step(in_SST, color, s, st) ==
  LET write == in_SST[s + 1] /\ ~st.found
  IN  [found |-> in_SST[s + 1] \/ st.found,
       c     |-> IF write THEN color[s + 1] ELSE st.c,
       src   |-> IF write THEN s ELSE st.src]

RECURSIVE IPF_loop(_, _, _, _)
IPF_loop(in_SST, color, s, st) ==
  IF s = Len(in_SST) THEN st
  ELSE IPF_loop(in_SST, color, s + 1, IPF_step(in_SST, color, s, st))

\* Orientation.IPF_color: the locals found, c at the return (c is returned).
\* empty is the content of the array np.empty() hands out.  The positive
\* factor 1/norm(axis) of line 171 scales every pole alike.
IPF_color(self, axis, empty) ==
  LET sym    == symmetry(self.lattice)
      d      == Radicand(sym)
      eq     == equivalent(self)
      sst    == [e \in 1..Len(eq) |-> inSST(sym, rotate(d, eq[e], axis), FALSE)] \o <<>>
      in_SST == [e \in 1..Len(eq) |-> sst[e].inSST]
      color  == [e \in 1..Len(eq) |-> sst[e].rgb]
  IN  IPF_loop(in_SST, color, 0, [found |-> FALSE, c |-> empty, src |-> -1])

\* Orientation.fromAverage up to the call of Rotation.fromAverage: the list
\* closest that is handed over, or the error of a disorientation
fromAverage(orientations) ==
  LET ref    == orientations[1]
      dis(n) == disorientation(ref, orientations[n], FALSE, TRUE)
  IN  IF \E n \in 1..Len(orientations) : dis(n).kind # "ok"
        THEN [kind |-> "NotImplementedError"]
        ELSE [kind    |-> "ok",
              closest |-> [n \in 1..Len(orientations) |->
                             equivalent(orientations[n])[dis(n).j + 1]],
              lattice |-> ref.lattice]

(* ------------------------------- inputs ------------------------------- *)
Abs(n) == IF n < 0 THEN 0 - n ELSE n

Components == (0 - MaxSum)..MaxSum

\* input quaternions with a non-negative real part
Quaternions ==
  { <<RInt(q[1]), RInt(q[2]), RInt(q[3]), RInt(q[4])>> :
      q \in { c \in (0..MaxSum) \X Components \X Components \X Components :
                /\ Abs(c[1]) + Abs(c[2]) + Abs(c[3]) + Abs(c[4]) <= MaxSum
                /\ c # <<0, 0, 0, 0>> } }

Orientations == [rotation : Quaternions, lattice : Lattices]

\* rotations of a second operand: no rotation, a quarter turn about z, a
\* third of a turn about [111], a small rotation about x
Pool ==
  { <<RInt(1), RInt(0), RInt(0), RInt(0)>>,
    <<RInt(1), RInt(0), RInt(0), RInt(1)>>,
    <<RInt(1), RInt(1), RInt(1), RInt(1)>>,
    <<RInt(3), RInt(1), RInt(0), RInt(0)>> }

\* second operands for a first operand: its own rotation or one of the pool,
\* its own lattice or one of three others
Partners(self) ==
  [rotation : Pool \cup {self.rotation}, lattice : {self.lattice, "fcc", "bcc", "hex"}]

\* further members of a list to average that starts with self
Members(self) == [rotation : Pool \cup {self.rotation}, lattice : {self.lattice, "hex"}]

\* input axes
Axes ==
  { <<RInt(0), RInt(0), RInt(1)>>,
    <<RInt(1), RInt(0), RInt(0)>>,
    <<RInt(1), RInt(1), RInt(0)>>,
    <<RInt(1), RInt(1), RInt(1)>>,
    <<RInt(1), RInt(2), RInt(3)>>,
    <<RInt(-1), RInt(2), RInt(0)>>,
    <<RInt(0), RInt(-1), RInt(-2)>>,
    <<RInt(0), RInt(0), RInt(0)>> }

\* what np.empty() may hold
EmptyValues == { <<RZero, RZero, RZero>>, <<RInt(7), RInt(-7), RInt(7)>> }

\* arguments of symmetryOperations: no argument (the empty list), one index,
\* a list of two indices
MemberArgs(sym) ==
  LET n == Len(symQuats(sym))
  IN  {[list |-> TRUE, idx |-> <<>>]}
      \cup {[list |-> FALSE, idx |-> <<a>>] : a \in 0..(n - 1)}
      \cup {[list |-> TRUE, idx |-> <<a, n - 1>>] : a \in 0..(n - 1)}

\* batches and lists: a first member, then members of the pool
Tails(n) == [1..n -> Pool]
Batches ==
  { <<q>> \o t : q \in Quaternions, t \in UNION {Tails(n) : n \in 0..(MaxList - 1)} }

(* ------------------------------- state -------------------------------- *)
\* pc: "idle", "constructed" (an object exists) or the name of the operation
\* that has been called on it; self: the object; arg: the arguments of the
\* call; loc: the local variables of the call at its return; res: what it
\* returned or raised
VARIABLES pc, self, arg, loc, res

vars == <<pc, self, arg, loc, res>>

Init ==
  /\ pc = "idle"
  /\ self = <<>>
  /\ arg = <<>>
  /\ loc = <<>>
  /\ res = <<>>

\* Orientation.__init__ with a rotation and a lattice
NewOrientation ==
  /\ pc = "idle"
  /\ \E o \in Orientations :
       /\ pc' = "constructed"
       /\ self' = [class |-> "Orientation", rotation |-> o.rotation, lattice |-> o.lattice]
  /\ UNCHANGED <<arg, loc, res>>

\* Orientation.__init__ with a batch of rotations and a lattice
NewOrientationBatch ==
  /\ pc = "idle"
  /\ \E rotations \in Batches, lattice \in Lattices :
       /\ pc' = "constructed"
       /\ self' = [class |-> "OrientationBatch", rotation |-> rotations, lattice |-> lattice]
  /\ UNCHANGED <<arg, loc, res>>

\* Symmetry.__init__
NewSymmetry ==
  /\ pc = "idle"
  /\ \E n \in 1..Len(SymmetryLattices) :
       /\ pc' = "constructed"
       /\ self' = [class |-> "Symmetry", lattice |-> SymmetryLattices[n]]
  /\ UNCHANGED <<arg, loc, res>>

CallDisorientation ==
  /\ pc = "constructed"
  /\ self.class = "Orientation"
  /\ \E other \in Partners(self), SST \in BOOLEAN, symmetries \in BOOLEAN :
       /\ pc' = "disorientation"
       /\ arg' = [other |-> other, SST |-> SST, symmetries |-> symmetries]
       /\ IF sameSymmetry(self, other)
            THEN /\ loc' = disorientationLocals(self, other, SST)
                 /\ res' = disorientationReturn(self, symmetries, loc')
            ELSE /\ loc' = <<>>
                 /\ res' = [kind |-> "NotImplementedError"]
  /\ UNCHANGED self

CallReduced ==
  /\ pc = "constructed"
  /\ self.class = "Orientation"
  /\ pc' = "reduced"
  /\ res' = reduced(self)
  /\ UNCHANGED <<self, arg, loc>>

CallReducedVec ==
  /\ pc = "constructed"
  /\ self.class = "OrientationBatch"
  /\ pc' = "reduced_vec"
  /\ res' = reduced_vec(self.rotation, self.lattice)
  /\ UNCHANGED <<self, arg, loc>>

CallInversePole ==
  /\ pc = "constructed"
  /\ self.class = "Orientation"
  /\ \E axis \in Axes, proper \in BOOLEAN, SST \in BOOLEAN :
       /\ pc' = "inversePole"
       /\ arg' = [axis |-> axis, proper |-> proper, SST |-> SST]
       /\ res' = inversePole(self, axis, proper, SST)
  /\ UNCHANGED <<self, loc>>

CallIPFColor ==
  /\ pc = "constructed"
  /\ self.class = "Orientation"
  /\ \E axis \in Axes \ {<<RZero, RZero, RZero>>}, empty \in EmptyValues :
       /\ pc' = "IPF_color"
       /\ arg' = [axis |-> axis]
       /\ loc' = IPF_color(self, axis, empty)
       /\ res' = loc'.c
  /\ UNCHANGED self

CallFromAverage ==
  /\ pc = "constructed"
  /\ self.class = "Orientation"
  /\ \E n \in 0..(MaxList - 1) :
       \E t \in [1..n -> Members(self)] :
         /\ pc' = "fromAverage"
         /\ arg' = [orientations |-> <<self>> \o t]
         /\ res' = fromAverage(<<self>> \o t)
  /\ UNCHANGED <<self, loc>>

CallSymmetryOperations ==
  /\ pc = "constructed"
  /\ self.class = "Symmetry"
  /\ \E members \in MemberArgs(self.lattice) :
       /\ pc' = "symmetryOperations"
       /\ arg' = [members |-> members]
       /\ res' = symmetryOperations(self.lattice, members)
  /\ UNCHANGED <<self, loc>>

NextDisorientation == NewOrientation \/ CallDisorientation
SpecDisorientation == Init /\ [][NextDisorientation]_vars

NextReduce == NewOrientation \/ NewOrientationBatch \/ CallReduced \/ CallReducedVec
SpecReduce == Init /\ [][NextReduce]_vars

NextPole == NewOrientation \/ CallInversePole \/ CallIPFColor
SpecPole == Init /\ [][NextPole]_vars

NextAverage == NewOrientation \/ CallFromAverage
SpecAverage == Init /\ [][NextAverage]_vars

NextSymmetry == NewSymmetry \/ CallSymmetryOperations
SpecSymmetry == Init /\ [][NextSymmetry]_vars

(* ------------------------------ properties ---------------------------- *)
IsIdentity(q) ==
  /\ q[1][1] > 0 /\ q[1][2] = 0
  /\ q[2] = RZero /\ q[3] = RZero /\ q[4] = RZero

\* the candidate misorientation of own operator i, other operator j and
\* inverse iteration k (all counted from 0), given the equivalents of the
\* two orientations
Candidate(d, own, others, i, j, k) ==
  LET r == mul(d, others[j + 1], inverse(own[i + 1]))
  IN  IF k = 0 THEN inverse(r) ELSE r

\* the positions <<i, j, k>> of the candidates of a call
Positions(me, SST) ==
  LET n == Len(symQuats(symmetry(me.lattice)))
  IN  (0..(IF SST THEN n - 1 ELSE 0)) \X (0..(n - 1)) \X (0..1)

\* p comes before q in the order i ascending, then j ascending, then k
Before(p, q) ==
  \/ p[1] < q[1]
  \/ p[1] = q[1] /\ p[2] < q[2]
  \/ p[1] = q[1] /\ p[2] = q[2] /\ p[3] < q[3]

\* the positions from the first one up to and including q
UpTo(me, SST, q) ==
  LET n == Len(symQuats(symmetry(me.lattice)))
  IN  { p \in (0..q[1]) \X (0..(n - 1)) \X (0..1) : Before(p, q) \/ p = q }

\* the position and the rotation disorientation has stopped at
Stopped == <<loc.i, loc.j, loc.k>>

DisorientationDone == pc = "disorientation" /\ res.kind = "ok"

C2_SuccessInFundamentalZone ==
  (DisorientationDone /\ loc.breaker) =>
    LET sym == symmetry(self.lattice)
        ro  == asRodrigues(Radicand(sym), res.r)
    IN  /\ inFZ(sym, ro)
        /\ arg.SST => inDisorientationSST(symmetry(arg.other.lattice), ro)

\* C3: disorientation raises its error exactly when the two lattices have
\* different symmetry classes, and then no candidate has been examined and
\* no rotation is returned.
C3_CrossSymmetryError ==
  pc = "disorientation" =>
    /\ (res.kind = "NotImplementedError")
         <=> (symmetry(self.lattice) # symmetry(arg.other.lattice))
    /\ res.kind = "NotImplementedError" => (loc = <<>> /\ DOMAIN res = {"kind"})
    /\ res.kind # "NotImplementedError" => (res.kind = "ok" /\ "r" \in DOMAIN res)

\* the error has been raised
C3_Witness ==
  /\ pc = "disorientation"
  /\ res.kind = "NotImplementedError"
  /\ self.lattice = "hex" /\ arg.other.lattice = "fcc"

\* C4: disorientation(O, O) is the identity rotation.
C4_SelfDisorientationIsIdentity ==
  (pc = "disorientation"
     /\ arg.other.rotation = self.rotation /\ arg.other.lattice = self.lattice) =>
    res.kind = "ok" /\ IsIdentity(res.r)

\* disorientation(O, O) has returned for a rotated cubic O
C4_Witness ==
  /\ DisorientationDone
  /\ arg.other.rotation = self.rotation /\ arg.other.lattice = self.lattice
  /\ self.lattice = "fcc" /\ ~IsIdentity(self.rotation) /\ arg.SST
  /\ IsIdentity(res.r)

\* the indices (from 1) of the symmetry equivalents of the rotation q of a
\* lattice that in_FZ accepts
InZone(q, lattice) ==
  LET eq == equivalent([rotation |-> q, lattice |-> lattice])
  IN  { n \in 1..Len(eq) : in_FZ([rotation |-> eq[n], lattice |-> lattice]) }

\* the first equivalent that in_FZ accepts
FirstInZone(q, lattice) ==
  LET eq == equivalent([rotation |-> q, lattice |-> lattice])
      z  == InZone(q, lattice)
  IN  eq[CHOOSE n \in z : \A m \in z : n <= m]

\* C5: reduced returns the first symmetry equivalent, in operator order,
\* whose Rodrigues vector is in the fundamental zone; what it returns is in
\* the fundamental zone and has the lattice of the orientation.
C5_ReducedInFundamentalZone ==
  pc = "reduced" =>
    /\ InZone(self.rotation, self.lattice) # {}
    /\ res.rotation = FirstInZone(self.rotation, self.lattice)
    /\ in_FZ(res)
    /\ res.lattice = self.lattice

\* C6: reduced_vec takes its fast path (no warning) only when every input
\* has exactly one equivalent in the fundamental zone, and in every case
\* returns one representative per input, in input order: the first in-zone
\* equivalent of that input.
C6_OneRepresentativePerInput ==
  pc = "reduced_vec" =>
    /\ res.kind = "ok"
    /\ ~res.warned =>
         \A l \in 1..Len(self.rotation) :
           Cardinality(InZone(self.rotation[l], self.lattice)) = 1
    /\ Len(res.rotation) = Len(self.rotation)
    /\ \A l \in 1..Len(self.rotation) :
         /\ InZone(self.rotation[l], self.lattice) # {}
         /\ res.rotation[l] = FirstInZone(self.rotation[l], self.lattice)
    /\ res.lattice = self.lattice

\* the indices s (from 0) of the symmetry equivalents whose pole of the axis
\* the call was made with is in the standard stereographic triangle
InTriangle(proper) ==
  LET sym == symmetry(self.lattice)
      eq  == equivalent(self)
  IN  { s \in 0..(Len(eq) - 1) :
          inSST(sym, rotate(Radicand(sym), eq[s + 1], arg.axis), proper).inSST }

\* the color in_SST computes for equivalent s
ColorOf(s) ==
  LET sym == symmetry(self.lattice)
  IN  inSST(sym, rotate(Radicand(sym), equivalent(self)[s + 1], arg.axis), FALSE).rgb

Least(S) == CHOOSE n \in S : \A m \in S : n <= m
Greatest(S) == CHOOSE n \in S : \A m \in S : n >= m

\* C7 as stated: with more than one equivalent in the triangle, the color
\* returned is the one written for the last of them.
C7_LastWriteWins ==
  pc = "IPF_color" =>
    LET tri == InTriangle(FALSE)
    IN  Cardinality(tri) > 1 => (loc.src = Greatest(tri) /\ res = ColorOf(loc.src))

\* C7 amended: with more than one equivalent in the triangle, the color
\* returned is the one written for the first of them in operator order;
\* later ones are ignored.
C7_FirstWriteWins ==
  pc = "IPF_color" =>
    LET tri == InTriangle(FALSE)
    IN  Cardinality(tri) > 1 => (loc.src = Least(tri) /\ res = ColorOf(loc.src))

\* a color has been returned for a cubic orientation with several
\* equivalents in the triangle
C7_Witness ==
  /\ pc = "IPF_color"
  /\ self.lattice = "fcc"
  /\ LET tri == InTriangle(FALSE)
     IN  Cardinality(tri) > 1 /\ loc.src = Least(tri) /\ loc.src < Greatest(tri)

\* C8: with SST, inversePole returns the axis rotated by the first
\* equivalent whose pole passes the triangle test (with the proper flag of
\* the call) and the index of that equivalent; without SST it returns the
\* axis rotated by the own rotation and index 0, whatever the equivalents.
C8_InversePoleFirstInTriangle ==
  pc = "inversePole" =>
    LET sym == symmetry(self.lattice)
        d   == Radicand(sym)
        tri == InTriangle(arg.proper)
    IN  IF arg.SST
          THEN /\ tri # {}
               /\ res.i = Least(tri)
               /\ res.pole = rotate(d, equivalent(self)[res.i + 1], arg.axis)
          ELSE /\ res.i = 0
               /\ res.pole = rotate(d, self.rotation, arg.axis)

\* a search that went past equivalents outside the triangle
C8_Witness ==
  /\ pc = "inversePole"
  /\ arg.SST /\ arg.proper
  /\ res.i > 1
  /\ res.i = Least(InTriangle(TRUE))
  /\ 0 \notin InTriangle(FALSE)

\* the absolute real part of the misorientation between the reference and
\* the rotation q: the larger, the smaller the misorientation angle (all
\* equivalents of one member have the same norm)
Closeness(d, ref, q) == RAbs(d, mul(d, q, inverse(ref))[1])

\* C9: fromAverage replaces each member by the symmetry equivalent of that
\* member closest to the reference (the first member): no other equivalent
\* of the member has a smaller misorientation to the reference.
C9_ClosestEquivalentChosen ==
  (pc = "fromAverage" /\ res.kind = "ok") =>
    LET os  == arg.orientations
        d   == Radicand(symmetry(os[1].lattice))
        ref == os[1].rotation
    IN  /\ Len(res.closest) = Len(os)
        /\ \A n \in 1..Len(os) :
             LET eq == equivalent(os[n])
             IN  /\ \E e \in 1..Len(eq) : res.closest[n] = eq[e]
                 /\ \A e \in 1..Len(eq) :
                      RGE(d, Closeness(d, ref, res.closest[n]), Closeness(d, ref, eq[e]))

\* C10: without an index argument symmetryOperations returns the whole
\* operator list of the class, in the order of the table: 24 operators for
\* cubic, 12 for hexagonal, 8 for tetragonal, 4 for orthorhombic, 1 for none,
\* the identity first and only once, no operator twice.
C10_OperatorCounts ==
  (pc = "symmetryOperations" /\ arg.members = [list |-> TRUE, idx |-> <<>>]) =>
    /\ Len(res) = CASE self.lattice = "cubic"        -> 24
                    [] self.lattice = "hexagonal"    -> 12
                    [] self.lattice = "tetragonal"   -> 8
                    [] self.lattice = "orthorhombic" -> 4
                    [] OTHER                         -> 1
    /\ IsIdentity(res[1])
    /\ \A n \in 2..Len(res) : ~IsIdentity(res[n])
    /\ \A n, m \in 1..Len(res) : n # m => res[n] # res[m]
    /\ \A n \in 1..Len(res) : res[n] = symQuats(self.lattice)[n]

\* the whole cubic list has been returned
C10_Witness ==
  /\ pc = "symmetryOperations"
  /\ self.lattice = "cubic"
  /\ arg.members = [list |-> TRUE, idx |-> <<>>]
  /\ Len(res) = 24

(* ----------------------- products of operators ------------------------ *)
\* a*b for two members a, b (indices from 0) of the operator list of a
\* Symmetry object
CallOperatorProduct ==
  /\ pc = "constructed"
  /\ self.class = "Symmetry"
  /\ \E a, b \in 0..(Len(symQuats(self.lattice)) - 1) :
       /\ pc' = "operatorProduct"
       /\ arg' = [a |-> a, b |-> b]
       /\ res' = mul(Radicand(self.lattice),
                     symmetryOperations(self.lattice, [list |-> FALSE, idx |-> <<a>>]),
                     symmetryOperations(self.lattice, [list |-> FALSE, idx |-> <<b>>]))
  /\ UNCHANGED <<self, loc>>

NextClosure == NewSymmetry \/ CallOperatorProduct
SpecClosure == Init /\ [][NextClosure]_vars

\* q with every component multiplied by the integer n
QScale(n, q) == <<RScale(n, q[1]), RScale(n, q[2]), RScale(n, q[3]), RScale(n, q[4])>>

\* p and q are the same quaternion up to global sign, where p is held in
\* units of 1/4 (a product of two table entries) and q in units of 1/2
SameUpToSign(p, q) == p = QScale(2, q) \/ p = QScale(-2, q)

\* C11: the product of any two operators of a list is, up to global sign,
\* an operator of the same list.
C11_GroupClosure ==
  pc = "operatorProduct" =>
    \E n \in 1..Len(symQuats(self.lattice)) : SameUpToSign(res, symQuats(self.lattice)[n])

\* a product of two cubic operators that is neither factor nor the identity,
\* one factor with a negative real part
C11_Witness ==
  /\ pc = "operatorProduct"
  /\ self.lattice = "cubic"
  /\ LET s == symQuats(self.lattice)
     IN  /\ RSign(2, s[arg.a + 1][1]) < 0
         /\ arg.b > 0
         /\ ~SameUpToSign(res, s[1])
         /\ ~SameUpToSign(res, s[arg.a + 1])
         /\ ~SameUpToSign(res, s[arg.b + 1])
         /\ \E n \in 1..Len(s) : SameUpToSign(res, s[n])

(* -------------------------- Rotation objects -------------------------- *)
\* quaternions a Rotation can be constructed with: Rotation.__init__ takes
\* any array, whatever the sign of its real part
SignedQuaternions == Quaternions \cup {QScale(-1, q) : q \in Quaternions}

\* second operands of a product: the pool, negatives of it, and two rows of
\* the cubic table with irrational entries (one with a negative real part)
SignedPool ==
  Pool \cup {QScale(-1, q) : q \in Pool}
       \cup {symQuats_cubic[17], symQuats_cubic[24]}

\* Rotation.__init__(quaternion): the object holds a copy of the array.
\* loc.first keeps what it was constructed with.
NewRotation ==
  /\ pc = "idle"
  /\ \E q \in SignedQuaternions :
       /\ pc' = "constructed"
       /\ self' = [class |-> "Rotation", quaternion |-> q \o <<>>]
       /\ loc' = [first |-> q, before |-> q]
  /\ UNCHANGED <<arg, res>>

\* self * other for a Rotation other
CallMul ==
  /\ pc = "constructed"
  /\ self.class = "Rotation"
  /\ \E other \in SignedPool :
       /\ pc' = "mul"
       /\ loc' = [first |-> loc.first, before |-> self.quaternion, other |-> other]
       /\ self' = [self EXCEPT !.quaternion = mulEffect(2, self.quaternion, other).self]
       /\ arg' = [other |-> mulEffect(2, self.quaternion, other).other]
       /\ res' = [isSelf |-> FALSE, quaternion |-> mulEffect(2, self.quaternion, other).R]

NextProduct == NewRotation \/ CallMul
SpecProduct == Init /\ [][NextProduct]_vars

\* C12: the product of two Rotations has a real part >= 0 whatever the signs
\* of the real parts of the operands, it is a new object, and both operands
\* hold afterwards the quaternion they held before.
C12_ProductCanonicalOperandsKept ==
  pc = "mul" =>
    /\ RSign(2, res.quaternion[1]) >= 0
    /\ ~res.isSelf
    /\ self.quaternion = loc.before
    /\ arg.other = loc.other

\* a product of two operands with negative real parts whose Hamilton product
\* has a negative real part, so that the sign of the result was flipped
C12_Witness ==
  /\ pc = "mul"
  /\ RSign(2, loc.before[1]) < 0
  /\ RSign(2, loc.other[1]) < 0
  /\ RSign(2, RSub(RMul(2, loc.before[1], loc.other[1]),
                   Dot(2, Vec(loc.before), Vec(loc.other)))) < 0
  /\ RSign(2, res.quaternion[1]) > 0
  /\ self.quaternion = loc.before

\* What a call leaves behind: self is the quaternion the receiver holds
\* afterwards, R the quaternion of the object returned, isSelf whether the
\* object returned is the receiver itself.
\* Rotation.inverse: in place, returns self
inverseEffect(q) == [self |-> inverse(q), isSelf |-> TRUE, R |-> inverse(q)]

\* mutant of inversedEffect: no copy is taken
inversedEffect_noCopy(q) == [self |-> inverse(q), isSelf |-> FALSE, R |-> inverse(q)]

\* Rotation.inversed: self.copy().inverse()
inversedEffect(q) == [self |-> q, isSelf |-> FALSE, R |-> inversed(q)]

\* Rotation.standardize: in place, returns self
standardizeEffect(d, q) == [self |-> standardize(d, q), isSelf |-> TRUE, R |-> standardize(d, q)]

\* Rotation.standardized: self.copy().standardize()
standardizedEffect(d, q) == [self |-> q, isSelf |-> FALSE, R |-> standardize(d, q)]

\* the calls of this section can follow one another on the same object
RotationCalls == {"inverse", "inversed", "standardize", "standardized"}

RotationReady == pc \in {"constructed"} \cup RotationCalls /\ self.class = "Rotation"

\* the state after a call with effect e on the receiver
AfterCall(name, e) ==
  /\ pc' = name
  /\ loc' = [first |-> loc.first, before |-> self.quaternion]
  /\ self' = [self EXCEPT !.quaternion = e.self]
  /\ res' = [isSelf |-> e.isSelf, quaternion |-> e.R]
  /\ UNCHANGED arg

CallInverse == RotationReady /\ AfterCall("inverse", inverseEffect(self.quaternion))

CallInversed == RotationReady /\ AfterCall("inversed", inversedEffect(self.quaternion))

CallStandardize == RotationReady /\ AfterCall("standardize", standardizeEffect(2, self.quaternion))

CallStandardized == RotationReady /\ AfterCall("standardized", standardizedEffect(2, self.quaternion))

NextInverse == NewRotation \/ CallInverse \/ CallInversed \/ CallStandardize \/ CallStandardized
SpecInverse == Init /\ [][NextInverse]_vars

\* C14 as stated: after any sequence of inverse, inversed, standardize and
\* standardized calls the receiver holds the quaternion it was constructed
\* with, and every call returned a new object.
C14_ReceiverNeverModified ==
  (pc \in RotationCalls) => (self.quaternion = loc.first /\ ~res.isSelf)

\* C14 amended: inversed and standardized return a new object and leave the
\* receiver as it was before the call; inverse and standardize work in place:
\* the receiver holds the inverted (sign-normalised) quaternion afterwards
\* and is itself what is returned.
C14_CopiesKeepInPlaceModifies ==
  /\ pc = "inversed" =>
       (self.quaternion = loc.before /\ ~res.isSelf /\ res.quaternion = inverse(loc.before))
  /\ pc = "standardized" =>
       (self.quaternion = loc.before /\ ~res.isSelf
          /\ res.quaternion = standardize(2, loc.before))
  /\ pc = "inverse" =>
       (self.quaternion = inverse(loc.before) /\ res.isSelf /\ res.quaternion = self.quaternion)
  /\ pc = "standardize" =>
       (self.quaternion = standardize(2, loc.before) /\ res.isSelf
          /\ res.quaternion = self.quaternion)

\* inversed has returned a new value for a receiver that an earlier in-place
\* call had changed
C14_Witness ==
  /\ pc = "inversed"
  /\ loc.before # loc.first
  /\ self.quaternion = loc.before
  /\ res.quaternion # self.quaternion


(* ---------------------------- constructors ---------------------------- *)
\* Values handed to a constructor are rationals: a sequence v of integer
\* numerators over the common denominator den.  isFloatArray tells whether
\* the caller passed a numpy array of dtype float, which the constructors
\* use as it is, or anything else, which np.array(..., dtype=float) copies.
\*
\* A Rotation handed out holds quaternion/den with components in Z[sqrt d].
\* Where an angle has no exact sine and cosine, trig names the half angle
\* trig.k * pi/12 * (pi/180)^trig.m and the real part is to be read as
\* quaternion[1]/den * cos, the vector part as quaternion[2..4]/den * sin;
\* trig.k = 0 says the components are exact as they stand.
NoTrig == [k |-> 0, m |-> 0]

NoRotation == [d |-> 0, den |-> 0, quaternion |-> <<>>, trig |-> NoTrig]

Raised(message, array) ==
  [kind |-> "ValueError", message |-> message, rotation |-> NoRotation, array |-> array]

Returned(rotation, array) ==
  [kind |-> "Rotation", message |-> "", rotation |-> rotation, array |-> array]

\* what the caller's array holds once the constructor has written v to qu
Seen(array, v) == IF array.isFloatArray THEN [array EXCEPT !.v = v] ELSE array

\* the square of np.linalg.norm for the first n integer numerators of v
RECURSIVE norm2(_, _)
norm2(v, n) == IF n = 0 THEN 0 ELSE v[n] * v[n] + norm2(v, n - 1)

\* np.isclose(norm, 1.0) for norm = sqrt(n2/den2), both integers: the
\* tolerance 1e-8 + 1e-5 admits |n2 - den2| <= 2.002e-5 * den2, which for
\* den2 < 49950 is n2 = den2
isclose_one(n2, den2) == n2 = den2

\* mutant of fromQuaternion: the sign is flipped whether or not
\* acceptHomomorph is set
fromQuaternion_alwaysAccept(quaternion, acceptHomomorph, p) ==
  LET qu1 == IF p > 0
             THEN <<quaternion.v[1], -quaternion.v[2], -quaternion.v[3], -quaternion.v[4]>>
             ELSE quaternion.v
      qu2 == IF qu1[1] < 0 THEN [i \in 1..4 |-> -qu1[i]] ELSE qu1
  IN  IF ~isclose_one(norm2(qu2, 4), quaternion.den * quaternion.den)
        THEN Raised("Quaternion is not of unit length.", Seen(quaternion, qu2))
        ELSE Returned([d |-> 2, den |-> quaternion.den,
                       quaternion |-> [i \in 1..4 |-> RInt(qu2[i])], trig |-> NoTrig],
                      Seen(quaternion, qu2))

\* Rotation.fromQuaternion
fromQuaternion(quaternion, acceptHomomorph, p) ==
  LET qu1 == IF p > 0
             THEN <<quaternion.v[1], -quaternion.v[2], -quaternion.v[3], -quaternion.v[4]>>
             ELSE quaternion.v
      qu2 == IF qu1[1] < 0 /\ acceptHomomorph THEN [i \in 1..4 |-> -qu1[i]] ELSE qu1
  IN  IF qu1[1] < 0 /\ ~acceptHomomorph
        THEN Raised("Quaternion has negative first component.", Seen(quaternion, qu1))
      ELSE IF ~isclose_one(norm2(qu2, 4), quaternion.den * quaternion.den)
        THEN Raised("Quaternion is not of unit length.", Seen(quaternion, qu2))
        ELSE Returned([d |-> 2, den |-> quaternion.den,
                       quaternion |-> [i \in 1..4 |-> RInt(qu2[i])], trig |-> NoTrig],
                      Seen(quaternion, qu2))

\* numerators -MaxSum+1 .. MaxSum-1 over denominators 1 .. MaxSum
QuaternionArrays ==
  [isFloatArray : BOOLEAN,
   v : [1..4 -> (1 - MaxSum)..(MaxSum - 1)],
   den : 1..MaxSum]

Conventions == {-1, 1}

CallFromQuaternion ==
  /\ pc = "idle"
  /\ \E quaternion \in QuaternionArrays, acceptHomomorph \in BOOLEAN, p \in Conventions :
       /\ pc' = "fromQuaternion"
       /\ arg' = [quaternion |-> quaternion, acceptHomomorph |-> acceptHomomorph, P |-> p]
       /\ res' = fromQuaternion(quaternion, acceptHomomorph, p)
  /\ UNCHANGED <<self, loc>>

\* the same call once more on the array as the first call left it
CallFromQuaternionAgain ==
  /\ pc = "fromQuaternion"
  /\ pc' = "fromQuaternionAgain"
  /\ loc' = res
  /\ res' = fromQuaternion(res.array, arg.acceptHomomorph, arg.P)
  /\ UNCHANGED <<self, arg>>

NextFromQuaternion == CallFromQuaternion \/ CallFromQuaternionAgain
SpecFromQuaternion == Init /\ [][NextFromQuaternion]_vars

\* the quaternion passed, in the P = -1 convention
Converted(a) ==
  IF a.P > 0 THEN <<a.quaternion.v[1], -a.quaternion.v[2], -a.quaternion.v[3], -a.quaternion.v[4]>>
  ELSE a.quaternion.v

IsUnitArray(array) ==
  array.v[1]^2 + array.v[2]^2 + array.v[3]^2 + array.v[4]^2 = array.den^2

\* C16: fromQuaternion raises an error when the norm of the input is not 1
\* or when its real part is negative and acceptHomomorph is not set;
\* otherwise it returns a Rotation, which holds the input with all four
\* components negated when the real part was negative (acceptHomomorph set)
\* and the input itself when it was not.
C16_FromQuaternionChecks ==
  (pc = "fromQuaternion") =>
     LET q == arg.quaternion
         negative == q.v[1] < 0
     IN  /\ (~IsUnitArray(q) \/ (negative /\ ~arg.acceptHomomorph)) <=> res.kind = "ValueError"
         /\ (res.kind = "Rotation" /\ negative) =>
               \A i \in 1..4 : res.rotation.quaternion[i] = RInt(-Converted(arg)[i])
         /\ (res.kind = "Rotation" /\ ~negative) =>
               \A i \in 1..4 : res.rotation.quaternion[i] = RInt(Converted(arg)[i])
         /\ res.kind = "Rotation" => res.rotation.den = q.den

\* a unit quaternion with negative real part and nonzero vector part was
\* accepted under the override
C16_Witness ==
  /\ pc = "fromQuaternion"
  /\ arg.acceptHomomorph
  /\ arg.quaternion.v[1] < 0
  /\ arg.quaternion.v[2] # 0
  /\ arg.quaternion.den = 3
  /\ res.kind = "Rotation"
  /\ RSign(2, res.rotation.quaternion[1]) > 0


\* An angle is k * pi/6 * (pi/180)^m: m = 0 for k * 30 degrees given in
\* radians, m = -1 for the same angle given in degrees; np.radians adds 1
\* to m.  For |k| <= 343 (pi/180 < 6/343 and 180/pi > 6):
AngleNegative(angle) == angle.k < 0

AngleAbovePi(angle) ==
  IF angle.m = 0 THEN angle.k > 6
  ELSE IF angle.m < 0 THEN angle.k >= 1
  ELSE FALSE

\* iszero (absolute tolerance 1e-12) of an angle, for m <= 4
iszero_angle(angle) == angle.k = 0

\* the half angles with sine and cosine in Z[sqrt d]/2
ExactHalfAngles == {2, 3, 4, 6}

cos_half(k) ==
  CASE k = 2 -> [d |-> 3, c |-> <<0, 1>>]
    [] k = 3 -> [d |-> 2, c |-> <<0, 1>>]
    [] k = 4 -> [d |-> 3, c |-> <<1, 0>>]
    [] k = 6 -> [d |-> 2, c |-> <<0, 0>>]

sin_half(k) ==
  CASE k = 2 -> <<1, 0>>
    [] k = 3 -> <<0, 1>>
    [] k = 4 -> <<0, 1>>
    [] k = 6 -> <<2, 0>>

\* ax2qu for the axis ax.v/ax.den and the angle ax.angle
ax2qu(ax) ==
  IF iszero_angle(ax.angle)
    THEN [d |-> 2, den |-> 1, quaternion |-> <<RInt(1), RInt(0), RInt(0), RInt(0)>>,
          trig |-> NoTrig]
  ELSE IF ax.angle.m = 0 /\ ax.angle.k \in ExactHalfAngles
    THEN [d |-> cos_half(ax.angle.k).d, den |-> 2 * ax.den,
          quaternion |-> <<RScale(ax.den, cos_half(ax.angle.k).c),
                           RScale(ax.v[1], sin_half(ax.angle.k)),
                           RScale(ax.v[2], sin_half(ax.angle.k)),
                           RScale(ax.v[3], sin_half(ax.angle.k))>>,
          trig |-> NoTrig]
    ELSE [d |-> 2, den |-> ax.den,
          quaternion |-> <<RInt(ax.den), RInt(ax.v[1]), RInt(ax.v[2]), RInt(ax.v[3])>>,
          trig |-> ax.angle]

\* the root of a square number, 0 for 0
Isqrt(n) == CHOOSE r \in 0..n : r * r = n

\* ax[0:3] /= np.linalg.norm(ax[0:3]): the numerators over their own norm;
\* den = 0 stands for the nan components that 0/0 leaves
normalised(ax) == [ax EXCEPT !.den = Isqrt(norm2(ax.v, 3))]

\* not np.isclose(np.linalg.norm(ax[0:3]), 1.0), false for nan
not_unit_axis(ax) == ax.den = 0 \/ ~isclose_one(norm2(ax.v, 3), ax.den * ax.den)

\* the array as the conversions of fromAxisAngle and fromRodrigues write it
converted(array, degrees, normalise, p) ==
  LET ax1 == IF p > 0 THEN [array EXCEPT !.v = <<-array.v[1], -array.v[2], -array.v[3]>>]
             ELSE array
      ax2 == IF degrees THEN [ax1 EXCEPT !.angle.m = @ + 1] ELSE ax1
  IN  IF normalise THEN normalised(ax2) ELSE ax2

\* mutant of fromAxisAngle: angles above pi pass
fromAxisAngle_noUpperBound(angleAxis, degrees, normalise, p) ==
  LET ax == converted(angleAxis, degrees, normalise, p)
      after == IF angleAxis.isFloatArray THEN ax ELSE angleAxis
  IN  IF AngleNegative(ax.angle)
        THEN Raised("Axis angle rotation angle outside of [0..pi].", after)
      ELSE IF not_unit_axis(ax)
        THEN Raised("Axis angle rotation axis is not of unit length.", after)
        ELSE Returned(ax2qu(ax), after)

\* Rotation.fromAxisAngle
fromAxisAngle(angleAxis, degrees, normalise, p) ==
  LET ax == converted(angleAxis, degrees, normalise, p)
      after == IF angleAxis.isFloatArray THEN ax ELSE angleAxis
  IN  IF AngleNegative(ax.angle) \/ AngleAbovePi(ax.angle)
        THEN Raised("Axis angle rotation angle outside of [0..pi].", after)
      ELSE IF not_unit_axis(ax)
        THEN Raised("Axis angle rotation axis is not of unit length.", after)
        ELSE Returned(ax2qu(ax), after)

\* axes with numerators -MaxSum+1 .. MaxSum-1 whose norm is rational, over
\* denominators 1 .. MaxSum, with angles -30 .. 210 degrees in steps of 30,
\* given in radians or in degrees
AxisVectors ==
  {v \in [1..3 -> (1 - MaxSum)..(MaxSum - 1)] :
     \E r \in 0..(2 * MaxSum) : r * r = norm2(v, 3)}

Angles == [k : -1..7, m : {-1, 0}]

AxisAngleArrays == [isFloatArray : BOOLEAN, v : AxisVectors, den : 1..MaxSum, angle : Angles]

CallFromAxisAngle ==
  /\ pc = "idle"
  /\ \E angleAxis \in AxisAngleArrays, degrees \in BOOLEAN, normalise \in BOOLEAN,
        p \in Conventions :
       /\ pc' = "fromAxisAngle"
       /\ arg' = [angleAxis |-> angleAxis, degrees |-> degrees, normalise |-> normalise, P |-> p]
       /\ res' = fromAxisAngle(angleAxis, degrees, normalise, p)
  /\ UNCHANGED <<self, loc>>

\* the same call once more on the array as the first call left it
CallFromAxisAngleAgain ==
  /\ pc = "fromAxisAngle"
  /\ pc' = "fromAxisAngleAgain"
  /\ loc' = res
  /\ res' = fromAxisAngle(res.array, arg.degrees, arg.normalise, arg.P)
  /\ UNCHANGED <<self, arg>>

NextFromAxisAngle == CallFromAxisAngle \/ CallFromAxisAngleAgain
SpecFromAxisAngle == Init /\ [][NextFromAxisAngle]_vars

\* C17: fromAxisAngle returns a Rotation exactly when the angle (in radians,
\* after the degrees conversion if asked for) is in [0, pi] and the axis
\* (after normalisation if asked for) has unit length, and raises an error
\* otherwise; for an angle of 0 the Rotation returned is (1,0,0,0) whatever
\* the axis.
C17_FromAxisAngleChecks ==
  (pc = "fromAxisAngle") =>
     LET a == arg.angleAxis
         m == a.angle.m + (IF arg.degrees THEN 1 ELSE 0)
         inRange == /\ a.angle.k >= 0
                    /\ m = 0 => a.angle.k <= 6
                    /\ m < 0 => a.angle.k = 0
         unit == IF arg.normalise THEN a.v # <<0, 0, 0>>
                 ELSE a.v[1]^2 + a.v[2]^2 + a.v[3]^2 = a.den^2
     IN  /\ res.kind = "Rotation" <=> (inRange /\ unit)
         /\ res.kind = "ValueError" <=> ~(inRange /\ unit)
         /\ res.kind = "ValueError" => res.rotation = NoRotation
         /\ (res.kind = "Rotation" /\ a.angle.k = 0) =>
               /\ res.rotation.quaternion = <<RInt(1), RInt(0), RInt(0), RInt(0)>>
               /\ res.rotation.den = 1
               /\ res.rotation.trig = NoTrig

\* an angle of 0 about the unit axis (1,2,2)/3 gave the identity
C17_Witness ==
  /\ pc = "fromAxisAngle"
  /\ ~arg.normalise
  /\ arg.angleAxis.angle.k = 0
  /\ arg.angleAxis.v = <<1, 2, 2>>
  /\ arg.angleAxis.den = 3
  /\ res.kind = "Rotation"
  /\ res.rotation.quaternion = <<RInt(1), RInt(0), RInt(0), RInt(0)>>


\* A Rodrigues array holds the axis v/den and, as ro[3], the tangent of half
\* the angle named by angle: negative for k < 0, 0 for k = 0, infinite for
\* k = 6 (angle pi).
\* ro2ax for an axis of unit length
ro2ax(ro) ==
  IF iszero_angle(ro.angle) THEN [ro EXCEPT !.v = <<0, 0, 1>>, !.den = 1]
  ELSE ro

\* ro2qu
ro2qu(ro) == ax2qu(ro2ax(ro))

\* Rotation.fromRodrigues
fromRodrigues(rodrigues, normalise, p) ==
  LET ro == converted(rodrigues, FALSE, normalise, p)
      after == IF rodrigues.isFloatArray THEN ro ELSE rodrigues
  IN  IF not_unit_axis(ro)
        THEN Raised("Rodrigues rotation axis is not of unit length.", after)
      ELSE IF AngleNegative(ro.angle)
        THEN Raised("Rodriques rotation angle not positive.", after)
        ELSE Returned(ro2qu(ro), after)

RodriguesArrays ==
  [isFloatArray : BOOLEAN, v : AxisVectors, den : 1..MaxSum, angle : [k : -1..6, m : {0}]]

CallFromRodrigues ==
  /\ pc = "idle"
  /\ \E rodrigues \in RodriguesArrays, normalise \in BOOLEAN, p \in Conventions :
       /\ pc' = "fromRodrigues"
       /\ arg' = [rodrigues |-> rodrigues, normalise |-> normalise, P |-> p]
       /\ res' = fromRodrigues(rodrigues, normalise, p)
  /\ UNCHANGED <<self, loc>>

\* the same call once more on the array as the first call left it
CallFromRodriguesAgain ==
  /\ pc = "fromRodrigues"
  /\ pc' = "fromRodriguesAgain"
  /\ loc' = res
  /\ res' = fromRodrigues(res.array, arg.normalise, arg.P)
  /\ UNCHANGED <<self, arg>>

NextFromRodrigues == CallFromRodrigues \/ CallFromRodriguesAgain

NextConstructors == NextFromQuaternion \/ NextFromAxisAngle \/ NextFromRodrigues
SpecConstructors == Init /\ [][NextConstructors]_vars

\* the array the caller passed to the constructor
Passed ==
  CASE pc \in {"fromQuaternion", "fromQuaternionAgain"} -> arg.quaternion
    [] pc \in {"fromAxisAngle", "fromAxisAngleAgain"} -> arg.angleAxis
    [] pc \in {"fromRodrigues", "fromRodriguesAgain"} -> arg.rodrigues

\* C15: after fromQuaternion, fromAxisAngle or fromRodrigues, whatever the
\* options, the array of the caller holds what it held before the call, and
\* a second call with the same options on the same array returns (or
\* raises) what the first call did.
C15_ArgumentsUntouched ==
  /\ pc \in {"fromQuaternion", "fromAxisAngle", "fromRodrigues"} => res.array = Passed
  /\ pc \in {"fromQuaternionAgain", "fromAxisAngleAgain", "fromRodriguesAgain"} =>
       /\ res.array = Passed
       /\ res.kind = loc.kind
       /\ res.rotation = loc.rotation


\* np.cos(j * pi/4) and np.sin(j * pi/4) in units of 1/2, in Z[sqrt 2]
cos_quarter(j) ==
  CASE j % 8 = 0 -> <<2, 0>>
    [] j % 8 \in {1, 7} -> <<0, 1>>
    [] j % 8 \in {2, 6} -> <<0, 0>>
    [] j % 8 \in {3, 5} -> <<0, -1>>
    [] j % 8 = 4 -> <<-2, 0>>

sin_quarter(j) == cos_quarter(j + 6)

\* eu2qu for Euler angles eu[i] * pi/2; the components are in units of 1/4
eu2qu(eu) ==
  LET cPhi == cos_quarter(eu[2])
      sPhi == sin_quarter(eu[2])
      qu == << RMul(2, cPhi, cos_quarter(eu[1] + eu[3])),
               RScale(-P, RMul(2, sPhi, cos_quarter(eu[1] - eu[3] + 8))),
               RScale(-P, RMul(2, sPhi, sin_quarter(eu[1] - eu[3] + 8))),
               RScale(-P, RMul(2, cPhi, sin_quarter(eu[1] + eu[3]))) >>
  IN  IF RSign(2, qu[1]) < 0 THEN <<RNeg(qu[1]), RNeg(qu[2]), RNeg(qu[3]), RNeg(qu[4])>> ELSE qu

\* Rotation.fromEulers for angles eulers.v[i] * pi/2 (radians) or all zero
\* (degrees): np.radians returns a new array, the array passed is only read
fromEulers(eulers, degrees) ==
  LET eu == eulers.v
  IN  IF (\E i \in 1..3 : eu[i] < 0) \/ (\E i \in 1..3 : eu[i] > 4) \/ eu[2] > 2
        THEN Raised("Euler angles outside of [0..2pi],[0..pi],[0..2pi].", eulers)
        ELSE Returned([d |-> 2, den |-> 4, quaternion |-> eu2qu(eu), trig |-> NoTrig], eulers)

\* angles -90 .. 450 degrees in steps of 90
EulerArrays == [isFloatArray : BOOLEAN, v : [1..3 -> -1..5]]

CallFromEulers ==
  /\ pc = "idle"
  /\ \E eulers \in EulerArrays, degrees \in BOOLEAN :
       /\ degrees => eulers.v = <<0, 0, 0>>
       /\ pc' = "fromEulers"
       /\ arg' = [eulers |-> eulers, degrees |-> degrees]
       /\ res' = fromEulers(eulers, degrees)
  /\ UNCHANGED <<self, loc>>

\* Rotation.fromRandom for the random numbers r.j0/8, r.j1/8 and r.half/2
fromRandom(r) ==
  LET A == IF r.half = 1 THEN <<0, 1>> ELSE <<0, 0>>
      B == IF r.half = 1 THEN <<0, 1>> ELSE <<2, 0>>
  IN  [d |-> 2, den |-> 4, trig |-> NoTrig,
       quaternion |-> standardizeEffect(2, << RMul(2, cos_quarter(r.j0), A),
                                              RMul(2, sin_quarter(r.j1), B),
                                              RMul(2, cos_quarter(r.j1), B),
                                              RMul(2, sin_quarter(r.j0), A) >>).R]

Randoms == [j0 : 0..7, j1 : 0..7, half : 0..1]

NoArray == <<>>

CallFromRandom ==
  /\ pc = "idle"
  /\ \E r \in Randoms :
       /\ pc' = "fromRandom"
       /\ arg' = [r |-> r]
       /\ res' = Returned(fromRandom(r), NoArray)
  /\ UNCHANGED <<self, loc>>

\* Symmetry(lattice).symmetryOperations(n): one operator, as a Rotation
CallSymmetryOperator ==
  /\ pc = "idle"
  /\ \E s \in 1..Len(SymmetryLattices) :
       \E n \in 0..(Len(symQuats(SymmetryLattices[s])) - 1) :
         /\ pc' = "symmetryOperator"
         /\ arg' = [lattice |-> SymmetryLattices[s], members |-> n]
         /\ res' = Returned([d |-> Radicand(SymmetryLattices[s]), den |-> 2, trig |-> NoTrig,
                             quaternion |-> symmetryOperations(SymmetryLattices[s],
                                                               [list |-> FALSE, idx |-> <<n>>])],
                            NoArray)
  /\ UNCHANGED <<self, loc>>

Factories == {"fromQuaternion", "fromEulers", "fromAxisAngle", "fromRandom"}

\* inverse() or inversed() of a Rotation that a constructor returned
CallInverseOfReturned ==
  /\ pc \in Factories
  /\ res.kind = "Rotation"
  /\ \E inPlace \in BOOLEAN :
       LET e == IF inPlace THEN inverseEffect(res.rotation.quaternion)
                ELSE inversedEffect(res.rotation.quaternion)
       IN  /\ pc' = (IF inPlace THEN "inverse" ELSE "inversed")
           /\ loc' = [of |-> pc, receiver |-> [res.rotation EXCEPT !.quaternion = e.self]]
           /\ res' = Returned([res.rotation EXCEPT !.quaternion = e.R], res.array)
  /\ UNCHANGED <<self, arg>>

NextHandOut ==
  \/ CallFromQuaternion \/ CallFromEulers \/ CallFromAxisAngle \/ CallFromRandom
  \/ CallInverseOfReturned \/ CallSymmetryOperator
SpecHandOut == Init /\ [][NextHandOut]_vars

\* the sum of the squares of the four components equals den^2; with a sine
\* and cosine left symbolic, the real part and the axis are each of length den
IsUnitRotation(r) ==
  LET q == r.quaternion
      sq(i) == RMul(r.d, q[i], q[i])
  IN  IF r.trig = NoTrig
        THEN RAdd(RAdd(sq(1), sq(2)), RAdd(sq(3), sq(4))) = RInt(r.den * r.den)
        ELSE sq(1) = RInt(r.den * r.den) /\ RAdd(sq(2), RAdd(sq(3), sq(4))) = RInt(r.den * r.den)

\* real part >= 0; a symbolic half angle is within [0, pi/2]
HasCanonicalSign(r) ==
  /\ RSign(r.d, r.quaternion[1]) >= 0
  /\ r.trig # NoTrig => (~AngleNegative(r.trig) /\ ~AngleAbovePi(r.trig))

HandedOut == Factories \cup {"inverse", "inversed", "symmetryOperator"}

\* C13: every Rotation returned by fromQuaternion, fromEulers,
\* fromAxisAngle, fromRandom, by inverse or inversed of such a Rotation, or
\* as a symmetry operator by symmetryOperations holds a quaternion of unit
\* length with real part >= 0.
C13_HandedOutUnitCanonical ==
  (pc \in HandedOut /\ res.kind = "Rotation") =>
     (IsUnitRotation(res.rotation) /\ HasCanonicalSign(res.rotation))

\* the same without the symmetry operators
C13_FactoriesUnitCanonical ==
  (pc \in HandedOut \ {"symmetryOperator"} /\ res.kind = "Rotation") =>
     (IsUnitRotation(res.rotation) /\ HasCanonicalSign(res.rotation))


(* ------------------------- inFZ called directly ------------------------ *)
\* Symmetry.inFZ with its test of the length of the argument
inFZ_call(sym, rodrigues) ==
  IF Len(rodrigues.num) # 3
    THEN [kind |-> "ValueError", message |-> "Input is not a Rodriques-Frank vector.",
          value |-> FALSE]
    ELSE [kind |-> "bool", message |-> "", value |-> inFZ(sym, rodrigues)]

\* vectors of length 2 to 4: finite ones with components from
\* {-1, 0, 1, sqrt d} / {1, 2}, and ones whose components are all
\* +inf, -inf or nan
RodriguesVectors ==
  UNION {[fin : {TRUE}, num : [1..n -> {RInt(-1), RZero, RInt(1), <<0, 1>>}],
          den : {RInt(1), RInt(2)}] : n \in 2..4}
  \cup
  UNION {[fin : {FALSE}, num : [1..n -> {RInt(-1), RZero, RInt(1)}], den : {RZero}] : n \in 2..4}

CallInFZ ==
  /\ pc = "constructed"
  /\ self.class = "Symmetry"
  /\ \E rodrigues \in RodriguesVectors :
       /\ pc' = "inFZ"
       /\ arg' = [rodrigues |-> rodrigues]
       /\ res' = inFZ_call(self.lattice, rodrigues)
  /\ UNCHANGED <<self, loc>>

NextInFZ == NewSymmetry \/ CallInFZ
SpecInFZ == Init /\ [][NextInFZ]_vars

\* C20: inFZ raises an error for every argument whose length is not 3, and
\* for the class without symmetry it returns true for every vector of
\* length 3, vectors with infinite components included.
C20_NoSymmetryAlwaysInside ==
  (pc = "inFZ") =>
     /\ Len(arg.rodrigues.num) # 3 => res.kind = "ValueError"
     /\ (Len(arg.rodrigues.num) = 3 /\ self.lattice \notin {"cubic", "hexagonal", "tetragonal",
                                                             "orthorhombic"}) =>
           (res.kind = "bool" /\ res.value)

\* the part of C20 that holds: the length test, and true for every vector
\* without a component +inf
C20_LengthAndFiniteVectors ==
  (pc = "inFZ") =>
     /\ Len(arg.rodrigues.num) # 3 <=> res.kind = "ValueError"
     /\ (Len(arg.rodrigues.num) = 3 /\ self.lattice \notin {"cubic", "hexagonal", "tetragonal",
                                                             "orthorhombic"}
           /\ (arg.rodrigues.fin \/ \A n \in 1..3 : arg.rodrigues.num[n] # RInt(1))) =>
           (res.kind = "bool" /\ res.value)


(* --------------------- orientation relationships ---------------------- *)
\* The tables of class Lattice.  A row of 'planes' (of 'directions') holds
\* the Miller indices of the plane normal (of the direction) for fcc and
\* for bcc.
KS ==
  [mapping |-> [fcc |-> 0, bcc |-> 1],
   planes |-> <<
     << <<1,1,1>>, <<0,1,1>> >>,
     << <<1,1,1>>, <<0,1,1>> >>,
     << <<1,1,1>>, <<0,1,1>> >>,
     << <<1,1,1>>, <<0,1,1>> >>,
     << <<1,1,1>>, <<0,1,1>> >>,
     << <<1,1,1>>, <<0,1,1>> >>,
     << <<1,-1,1>>, <<0,1,1>> >>,
     << <<1,-1,1>>, <<0,1,1>> >>,
     << <<1,-1,1>>, <<0,1,1>> >>,
     << <<1,-1,1>>, <<0,1,1>> >>,
     << <<1,-1,1>>, <<0,1,1>> >>,
     << <<1,-1,1>>, <<0,1,1>> >>,
     << <<-1,1,1>>, <<0,1,1>> >>,
     << <<-1,1,1>>, <<0,1,1>> >>,
     << <<-1,1,1>>, <<0,1,1>> >>,
     << <<-1,1,1>>, <<0,1,1>> >>,
     << <<-1,1,1>>, <<0,1,1>> >>,
     << <<-1,1,1>>, <<0,1,1>> >>,
     << <<1,1,-1>>, <<0,1,1>> >>,
     << <<1,1,-1>>, <<0,1,1>> >>,
     << <<1,1,-1>>, <<0,1,1>> >>,
     << <<1,1,-1>>, <<0,1,1>> >>,
     << <<1,1,-1>>, <<0,1,1>> >>,
     << <<1,1,-1>>, <<0,1,1>> >> >>,
   directions |-> <<
     << <<-1,0,1>>, <<-1,-1,1>> >>,
     << <<-1,0,1>>, <<-1,1,-1>> >>,
     << <<0,1,-1>>, <<-1,-1,1>> >>,
     << <<0,1,-1>>, <<-1,1,-1>> >>,
     << <<1,-1,0>>, <<-1,-1,1>> >>,
     << <<1,-1,0>>, <<-1,1,-1>> >>,
     << <<1,0,-1>>, <<-1,-1,1>> >>,
     << <<1,0,-1>>, <<-1,1,-1>> >>,
     << <<-1,-1,0>>, <<-1,-1,1>> >>,
     << <<-1,-1,0>>, <<-1,1,-1>> >>,
     << <<0,1,1>>, <<-1,-1,1>> >>,
     << <<0,1,1>>, <<-1,1,-1>> >>,
     << <<0,-1,1>>, <<-1,-1,1>> >>,
     << <<0,-1,1>>, <<-1,1,-1>> >>,
     << <<-1,0,-1>>, <<-1,-1,1>> >>,
     << <<-1,0,-1>>, <<-1,1,-1>> >>,
     << <<1,1,0>>, <<-1,-1,1>> >>,
     << <<1,1,0>>, <<-1,1,-1>> >>,
     << <<-1,1,0>>, <<-1,-1,1>> >>,
     << <<-1,1,0>>, <<-1,1,-1>> >>,
     << <<0,-1,-1>>, <<-1,-1,1>> >>,
     << <<0,-1,-1>>, <<-1,1,-1>> >>,
     << <<1,0,1>>, <<-1,-1,1>> >>,
     << <<1,0,1>>, <<-1,1,-1>> >> >> ]

GT ==
  [mapping |-> [fcc |-> 0, bcc |-> 1],
   planes |-> <<
     << <<1,1,1>>, <<1,0,1>> >>,
     << <<1,1,1>>, <<1,1,0>> >>,
     << <<1,1,1>>, <<0,1,1>> >>,
     << <<-1,-1,1>>, <<-1,0,1>> >>,
     << <<-1,-1,1>>, <<-1,-1,0>> >>,
     << <<-1,-1,1>>, <<0,-1,1>> >>,
     << <<-1,1,1>>, <<-1,0,1>> >>,
     << <<-1,1,1>>, <<-1,1,0>> >>,
     << <<-1,1,1>>, <<0,1,1>> >>,
     << <<1,-1,1>>, <<1,0,1>> >>,
     << <<1,-1,1>>, <<1,-1,0>> >>,
     << <<1,-1,1>>, <<0,-1,1>> >>,
     << <<1,1,1>>, <<1,1,0>> >>,
     << <<1,1,1>>, <<0,1,1>> >>,
     << <<1,1,1>>, <<1,0,1>> >>,
     << <<-1,-1,1>>, <<-1,-1,0>> >>,
     << <<-1,-1,1>>, <<0,-1,1>> >>,
     << <<-1,-1,1>>, <<-1,0,1>> >>,
     << <<-1,1,1>>, <<-1,1,0>> >>,
     << <<-1,1,1>>, <<0,1,1>> >>,
     << <<-1,1,1>>, <<-1,0,1>> >>,
     << <<1,-1,1>>, <<1,-1,0>> >>,
     << <<1,-1,1>>, <<0,-1,1>> >>,
     << <<1,-1,1>>, <<1,0,1>> >> >>,
   directions |-> <<
     << <<-5,-12,17>>, <<-17,-7,17>> >>,
     << <<17,-5,-12>>, <<17,-17,-7>> >>,
     << <<-12,17,-5>>, <<-7,17,-17>> >>,
     << <<5,12,17>>, <<17,7,17>> >>,
     << <<-17,5,-12>>, <<-17,17,-7>> >>,
     << <<12,-17,-5>>, <<7,-17,-17>> >>,
     << <<-5,12,-17>>, <<-17,7,-17>> >>,
     << <<17,5,12>>, <<17,17,7>> >>,
     << <<-12,-17,5>>, <<-7,-17,17>> >>,
     << <<5,-12,-17>>, <<17,-7,-17>> >>,
     << <<-17,-5,12>>, <<-17,-17,7>> >>,
     << <<12,17,5>>, <<7,17,17>> >>,
     << <<-5,17,-12>>, <<-17,17,-7>> >>,
     << <<-12,-5,17>>, <<-7,-17,17>> >>,
     << <<17,-12,-5>>, <<17,-7,-17>> >>,
     << <<5,-17,-12>>, <<17,-17,-7>> >>,
     << <<12,5,17>>, <<7,17,17>> >>,
     << <<-17,12,-5>>, <<-17,7,-17>> >>,
     << <<-5,-17,12>>, <<-17,-17,7>> >>,
     << <<-12,5,-17>>, <<-7,17,-17>> >>,
     << <<17,12,5>>, <<17,7,17>> >>,
     << <<5,17,12>>, <<17,17,7>> >>,
     << <<12,-5,-17>>, <<7,-17,-17>> >>,
     << <<-17,-12,5>>, <<-17,-7,17>> >> >> ]

GTprime ==
  [mapping |-> [fcc |-> 0, bcc |-> 1],
   planes |-> <<
     << <<7,17,17>>, <<12,5,17>> >>,
     << <<17,7,17>>, <<17,12,5>> >>,
     << <<17,17,7>>, <<5,17,12>> >>,
     << <<-7,-17,17>>, <<-12,-5,17>> >>,
     << <<-17,-7,17>>, <<-17,-12,5>> >>,
     << <<-17,-17,7>>, <<-5,-17,12>> >>,
     << <<7,-17,-17>>, <<12,-5,-17>> >>,
     << <<17,-7,-17>>, <<17,-12,-5>> >>,
     << <<17,-17,-7>>, <<5,-17,-12>> >>,
     << <<-7,17,-17>>, <<-12,5,-17>> >>,
     << <<-17,7,-17>>, <<-17,12,-5>> >>,
     << <<-17,17,-7>>, <<-5,17,-12>> >>,
     << <<7,17,17>>, <<12,17,5>> >>,
     << <<17,7,17>>, <<5,12,17>> >>,
     << <<17,17,7>>, <<17,5,12>> >>,
     << <<-7,-17,17>>, <<-12,-17,5>> >>,
     << <<-17,-7,17>>, <<-5,-12,17>> >>,
     << <<-17,-17,7>>, <<-17,-5,12>> >>,
     << <<7,-17,-17>>, <<12,-17,-5>> >>,
     << <<17,-7,-17>>, <<5,-12,-17>> >>,
     << <<17,-17,-7>>, <<17,-5,-12>> >>,
     << <<-7,17,-17>>, <<-12,17,-5>> >>,
     << <<-17,7,-17>>, <<-5,12,-17>> >>,
     << <<-17,17,-7>>, <<-17,5,-12>> >> >>,
   directions |-> <<
     << <<0,1,-1>>, <<1,1,-1>> >>,
     << <<-1,0,1>>, <<-1,1,1>> >>,
     << <<1,-1,0>>, <<1,-1,1>> >>,
     << <<0,-1,-1>>, <<-1,-1,-1>> >>,
     << <<1,0,1>>, <<1,-1,1>> >>,
     << <<1,-1,0>>, <<1,-1,-1>> >>,
     << <<0,1,-1>>, <<-1,1,-1>> >>,
     << <<1,0,1>>, <<1,1,1>> >>,
     << <<-1,-1,0>>, <<-1,-1,1>> >>,
     << <<0,-1,-1>>, <<1,-1,-1>> >>,
     << <<-1,0,1>>, <<-1,-1,1>> >>,
     << <<-1,-1,0>>, <<-1,-1,-1>> >>,
     << <<0,-1,1>>, <<1,-1,1>> >>,
     << <<1,0,-1>>, <<1,1,-1>> >>,
     << <<-1,1,0>>, <<-1,1,1>> >>,
     << <<0,1,1>>, <<-1,1,1>> >>,
     << <<-1,0,-1>>, <<-1,-1,-1>> >>,
     << <<-1,1,0>>, <<-1,1,-1>> >>,
     << <<0,-1,1>>, <<-1,-1,1>> >>,
     << <<-1,0,-1>>, <<-1,1,-1>> >>,
     << <<1,1,0>>, <<1,1,1>> >>,
     << <<0,1,1>>, <<1,1,1>> >>,
     << <<1,0,-1>>, <<1,-1,-1>> >>,
     << <<1,1,0>>, <<1,1,-1>> >> >> ]

NW ==
  [mapping |-> [fcc |-> 0, bcc |-> 1],
   planes |-> <<
     << <<1,1,1>>, <<0,1,1>> >>,
     << <<1,1,1>>, <<0,1,1>> >>,
     << <<1,1,1>>, <<0,1,1>> >>,
     << <<-1,1,1>>, <<0,1,1>> >>,
     << <<-1,1,1>>, <<0,1,1>> >>,
     << <<-1,1,1>>, <<0,1,1>> >>,
     << <<1,-1,1>>, <<0,1,1>> >>,
     << <<1,-1,1>>, <<0,1,1>> >>,
     << <<1,-1,1>>, <<0,1,1>> >>,
     << <<-1,-1,1>>, <<0,1,1>> >>,
     << <<-1,-1,1>>, <<0,1,1>> >>,
     << <<-1,-1,1>>, <<0,1,1>> >> >>,
   directions |-> <<
     << <<2,-1,-1>>, <<0,-1,1>> >>,
     << <<-1,2,-1>>, <<0,-1,1>> >>,
     << <<-1,-1,2>>, <<0,-1,1>> >>,
     << <<-2,-1,-1>>, <<0,-1,1>> >>,
     << <<1,2,-1>>, <<0,-1,1>> >>,
     << <<1,-1,2>>, <<0,-1,1>> >>,
     << <<2,1,-1>>, <<0,-1,1>> >>,
     << <<-1,-2,-1>>, <<0,-1,1>> >>,
     << <<-1,1,2>>, <<0,-1,1>> >>,
     << <<2,-1,1>>, <<0,-1,1>> >>,
     << <<-1,2,1>>, <<0,-1,1>> >>,
     << <<-1,-1,-2>>, <<0,-1,1>> >> >> ]

Pitsch ==
  [mapping |-> [fcc |-> 0, bcc |-> 1],
   planes |-> <<
     << <<0,1,0>>, <<-1,0,1>> >>,
     << <<0,0,1>>, <<1,-1,0>> >>,
     << <<1,0,0>>, <<0,1,-1>> >>,
     << <<1,0,0>>, <<0,-1,-1>> >>,
     << <<0,1,0>>, <<-1,0,-1>> >>,
     << <<0,0,1>>, <<-1,-1,0>> >>,
     << <<0,1,0>>, <<-1,0,-1>> >>,
     << <<0,0,1>>, <<-1,-1,0>> >>,
     << <<1,0,0>>, <<0,-1,-1>> >>,
     << <<1,0,0>>, <<0,-1,1>> >>,
     << <<0,1,0>>, <<1,0,-1>> >>,
     << <<0,0,1>>, <<-1,1,0>> >> >>,
   directions |-> <<
     << <<1,0,1>>, <<1,-1,1>> >>,
     << <<1,1,0>>, <<1,1,-1>> >>,
     << <<0,1,1>>, <<-1,1,1>> >>,
     << <<0,1,-1>>, <<-1,1,-1>> >>,
     << <<-1,0,1>>, <<-1,-1,1>> >>,
     << <<1,-1,0>>, <<1,-1,-1>> >>,
     << <<1,0,-1>>, <<1,-1,-1>> >>,
     << <<-1,1,0>>, <<-1,1,-1>> >>,
     << <<0,-1,1>>, <<-1,-1,1>> >>,
     << <<0,1,1>>, <<-1,1,1>> >>,
     << <<1,0,1>>, <<1,-1,1>> >>,
     << <<1,1,0>>, <<1,1,-1>> >> >> ]

Bain ==
  [mapping |-> [fcc |-> 0, bcc |-> 1],
   planes |-> <<
     << <<1,0,0>>, <<1,0,0>> >>,
     << <<0,1,0>>, <<0,1,0>> >>,
     << <<0,0,1>>, <<0,0,1>> >> >>,
   directions |-> <<
     << <<0,1,0>>, <<0,1,1>> >>,
     << <<0,0,1>>, <<1,0,1>> >>,
     << <<1,0,0>>, <<1,1,0>> >> >> ]
\* mutant of models: Bain is missing
models_noBain == [KS |-> KS, GT |-> GT, GT_prime |-> GTprime, NW |-> NW, Pitsch |-> Pitsch]

\* the dictionary of relationOperations
models == [KS |-> KS, GT |-> GT, GT_prime |-> GTprime, NW |-> NW, Pitsch |-> Pitsch, Bain |-> Bain]

\* np.hstack((planes, directions)): row n is plane fcc, plane bcc,
\* direction fcc, direction bcc
hstack(planes, directions) == [n \in 1..Len(planes) |-> planes[n] \o directions[n]]

dot3(u, v) == u[1] * v[1] + u[2] * v[2] + u[3] * v[3]

cross3(u, v) ==
  <<u[2] * v[3] - u[3] * v[2], u[3] * v[1] - u[1] * v[3], u[1] * v[2] - u[2] * v[1]>>

\* np.array([dir, np.cross(plane, dir), plane]) for the normalised plane
\* and dir: row k is v[k] / sqrt(n2[k]), with integer v[k] and n2[k]
frame(plane, dir) ==
  [v  |-> <<dir, cross3(plane, dir), plane>>,
   n2 |-> <<norm2(dir, 3), norm2(plane, 3) * norm2(dir, 3), norm2(plane, 3)>>]

\* np.dot(otherMatrix.T, myMatrix) as the sum over k of N[k] / sqrt(D[k])
\* with integer matrices N[k] and integers D[k]
om_of(myMatrix, otherMatrix) ==
  [N |-> [k \in 1..3 |-> [i \in 1..3 |-> [j \in 1..3 |-> otherMatrix.v[k][i] * myMatrix.v[k][j]]]],
   D |-> [k \in 1..3 |-> otherMatrix.n2[k] * myMatrix.n2[k]]]

\* Rotation.fromMatrix of the matrix of one row.  The two frames are
\* right-handed; they are orthonormal, and the product a proper rotation
\* that passes the tests of fromBasis, exactly when each plane normal is
\* perpendicular to its direction and neither is zero.  The Rotation is
\* held as its matrix.
rowRotation(miller, myPlane_id) ==
  LET otherPlane_id == (myPlane_id + 1) % 2
      myPlane    == miller[myPlane_id + 1]
      myDir      == miller[myPlane_id + 2 + 1]
      otherPlane == miller[otherPlane_id + 1]
      otherDir   == miller[otherPlane_id + 2 + 1]
  IN  IF \/ dot3(myPlane, myDir) # 0 \/ dot3(otherPlane, otherDir) # 0
         \/ norm2(myPlane, 3) = 0 \/ norm2(myDir, 3) = 0
         \/ norm2(otherPlane, 3) = 0 \/ norm2(otherDir, 3) = 0
        THEN [kind |-> "ValueError", om |-> <<>>]
        ELSE [kind |-> "Rotation", om |-> om_of(frame(myPlane, myDir), frame(otherPlane, otherDir))]

\* the rotations of all rows, in the order of the table
rowRotations(relationship, myPlane_id) ==
  [n \in 1..Len(relationship.planes) |->
     rowRotation(hstack(relationship.planes, relationship.directions)[n], myPlane_id)]

\* mutant of relationOperations: the lattice returned is the own one
relationOperations_ownLattice(lattice, model) ==
  IF model \notin DOMAIN models
    THEN [kind |-> "KeyError", message |-> "Orientation relationship is unknown",
          lattice |-> "", rotations |-> <<>>]
  ELSE IF lattice \notin DOMAIN models[model].mapping
    THEN [kind |-> "ValueError", message |-> "Relationship not supported for lattice",
          lattice |-> "", rotations |-> <<>>]
  ELSE IF Len(models[model].planes) # Len(models[model].directions)
    THEN [kind |-> "ValueError", message |-> "np.hstack", lattice |-> "", rotations |-> <<>>]
  ELSE IF \E n \in 1..Len(models[model].planes) :
            rowRotations(models[model], models[model].mapping[lattice])[n].kind = "ValueError"
    THEN [kind |-> "ValueError", message |-> "fromMatrix", lattice |-> "", rotations |-> <<>>]
    ELSE [kind |-> "dict", message |-> "", lattice |-> lattice,
          rotations |-> [n \in 1..Len(models[model].planes) |->
                           rowRotations(models[model], models[model].mapping[lattice])[n].om]]

\* Lattice.relationOperations.  KeyError for a name that is not a key of
\* models; ValueError for a lattice that is not a key of the mapping, from
\* np.hstack for tables of different length, and from fromMatrix; otherwise
\* the dictionary with the target lattice and the rotations.
relationOperations(lattice, model) ==
  IF model \notin DOMAIN models
    THEN [kind |-> "KeyError", message |-> "Orientation relationship is unknown",
          lattice |-> "", rotations |-> <<>>]
  ELSE IF lattice \notin DOMAIN models[model].mapping
    THEN [kind |-> "ValueError", message |-> "Relationship not supported for lattice",
          lattice |-> "", rotations |-> <<>>]
  ELSE IF Len(models[model].planes) # Len(models[model].directions)
    THEN [kind |-> "ValueError", message |-> "np.hstack", lattice |-> "", rotations |-> <<>>]
  ELSE IF \E n \in 1..Len(models[model].planes) :
            rowRotations(models[model], models[model].mapping[lattice])[n].kind = "ValueError"
    THEN [kind |-> "ValueError", message |-> "fromMatrix", lattice |-> "", rotations |-> <<>>]
    ELSE [kind |-> "dict", message |-> "",
          lattice |-> CHOOSE l \in DOMAIN models[model].mapping : l # lattice,
          rotations |-> [n \in 1..Len(models[model].planes) |->
                           rowRotations(models[model], models[model].mapping[lattice])[n].om]]

\* names asked for: the keys, the names of the tables, and other spellings
ModelNames ==
  {"KS", "GT", "GT_prime", "NW", "Pitsch", "Bain",
   "GTprime", "GT'", "ks", "gt", "gt_prime", "nw", "pitsch", "bain",
   "Ks", "PITSCH", "BAIN", "Nishiyama-Wassermann", "Kurdjumov-Sachs", "Greninger-Troiano", ""}

\* Lattice.__init__
NewLattice ==
  /\ pc = "idle"
  /\ \E lattice \in Lattices :
       /\ pc' = "constructed"
       /\ self' = [class |-> "Lattice", lattice |-> lattice]
  /\ UNCHANGED <<arg, loc, res>>

CallRelationOperations ==
  /\ pc = "constructed"
  /\ self.class = "Lattice"
  /\ \E model \in ModelNames :
       /\ pc' = "relationOperations"
       /\ arg' = [model |-> model]
       /\ res' = relationOperations(self.lattice, model)
  /\ UNCHANGED <<self, loc>>

NextRelation == NewLattice \/ CallRelationOperations
SpecRelation == Init /\ [][NextRelation]_vars

\* the rows of the planes table of a recognised name
RowsOf(model) ==
  CASE model = "KS" -> Len(KS.planes)
    [] model = "GT" -> Len(GT.planes)
    [] model = "GT_prime" -> Len(GTprime.planes)
    [] model = "NW" -> Len(NW.planes)
    [] model = "Pitsch" -> Len(Pitsch.planes)
    [] model = "Bain" -> Len(Bain.planes)

\* C18: relationOperations raises the unknown-relationship error for every
\* name outside KS, GT, GT_prime, NW, Pitsch, Bain; for these names it raises
\* the unsupported-lattice error when the lattice is neither fcc nor bcc,
\* and otherwise returns one rotation per row of the table together with
\* the other lattice of the pair: bcc for fcc, fcc for bcc.
C18_RelationOperationsOutcome ==
  (pc = "relationOperations") =>
     LET known == arg.model \in {"KS", "GT", "GT_prime", "NW", "Pitsch", "Bain"}
         endpoint == self.lattice \in {"fcc", "bcc"}
     IN  /\ ~known =>
              (res.kind = "KeyError" /\ res.message = "Orientation relationship is unknown")
         /\ (known /\ ~endpoint) =>
              (res.kind = "ValueError" /\ res.message = "Relationship not supported for lattice")
         /\ (known /\ endpoint) =>
              /\ res.kind = "dict"
              /\ Len(res.rotations) = RowsOf(arg.model)
              /\ res.lattice = (IF self.lattice = "fcc" THEN "bcc" ELSE "fcc")

\* GT for bcc gave 24 rotations and fcc as target
C18_Witness ==
  /\ pc = "relationOperations"
  /\ self.lattice = "bcc"
  /\ arg.model = "GT"
  /\ res.kind = "dict"
  /\ Len(res.rotations) = 24
  /\ res.lattice = "fcc"

\* the names relationOperations accepts
Accepted == {model \in ModelNames : relationOperations("fcc", model).kind # "KeyError"}

\* C19 as stated: relationOperations accepts exactly five names, and the
\* planes and directions of each accepted relationship have the same number
\* of rows.
C19_FiveRelationships ==
  (pc = "relationOperations") =>
     /\ Cardinality(Accepted) = 5
     /\ Cardinality(DOMAIN models) = 5
     /\ res.kind # "KeyError" =>
          Len(models[arg.model].planes) = Len(models[arg.model].directions)

\* C19 amended: relationOperations accepts exactly six names (KS, GT,
\* GT_prime, NW, Pitsch, Bain), and the planes and directions of each
\* accepted relationship have the same number of rows.
C19_SixRelationships ==
  (pc = "relationOperations") =>
     /\ Cardinality(Accepted) = 6
     /\ Cardinality(DOMAIN models) = 6
     /\ res.kind # "KeyError" <=> arg.model \in {"KS", "GT", "GT_prime", "NW", "Pitsch", "Bain"}
     /\ res.kind # "KeyError" =>
          Len(models[arg.model].planes) = Len(models[arg.model].directions)

\* the sixth relationship, Bain, was accepted and gave its three rotations
C19_Witness ==
  /\ pc = "relationOperations"
  /\ arg.model = "Bain"
  /\ self.lattice = "fcc"
  /\ res.kind = "dict"
  /\ Len(res.rotations) = 3


\* C21: for the zero Rodrigues vector inFZ returns true under each of the
\* five classes none, orthorhombic, tetragonal, hexagonal and cubic.
C21_ZeroVectorInside ==
  (/\ pc = "inFZ"
   /\ arg.rodrigues.fin
   /\ arg.rodrigues.num = <<RZero, RZero, RZero>>) =>
     (res.kind = "bool" /\ res.value)

\* the zero vector was tested for the hexagonal class
C21_Witness ==
  /\ pc = "inFZ"
  /\ self.lattice = "hexagonal"
  /\ arg.rodrigues.fin
  /\ arg.rodrigues.num = <<RZero, RZero, RZero>>
  /\ res.value


(* ------------------- yieldSurface: the simulation sweep ---------------- *)
\* pc is the position of the main thread, arg its options and loop index,
\* self the worker threads (position at, locals me and conv, and tmp for
\* a value read and not yet written back, 0 otherwise), res the globals
\* N_simulations, s (the value of the semaphore) and stressAll (the number
\* of results in stressAll[0]; yieldValue[2] is 1).  loc records what happened: holders
\* are the threads that acquired s and did not release it yet, unprotected
\* whether a global was read or written by a thread outside holders, handed
\* the indices that getLoadcase returned, in order.
MaxThreads == 2
MaxSimulations == 1

\* mutant of acquire: the call does not block
acquire_nonblocking(sem) == [enabled |-> TRUE, value |-> sem - 1]

\* Semaphore.acquire: blocks while the value is 0
acquire(sem) == [enabled |-> sem > 0, value |-> sem - 1]

\* Semaphore.release
release(sem) == sem + 1

\* mutant of releaseOnFailure: the except branch returns without releasing
releaseOnFailure_forgotten(sem) == sem

\* s.release() in the except branch of doSim
releaseOnFailure(sem) == release(sem)

\* mutant of getLoadcase_increment: the counter is not advanced
getLoadcase_noIncrement(n) == n

\* N_simulations+=1 in getLoadcase
getLoadcase_increment(n) == n + 1

\* converged()
converged(n, max) == IF n < max THEN FALSE ELSE TRUE

\* main: options parsed and checked (threads >= 1, max >= min >= 0),
\* globals initialised
StartSweep ==
  /\ pc = "idle"
  /\ \E max \in 0..MaxSimulations, threads \in 1..MaxThreads :
       /\ arg' = [max |-> max, threads |-> threads, i |-> 0]
       /\ self' = [t \in 1..threads |-> [at |-> "unstarted", me |-> 0, conv |-> FALSE, tmp |-> 0]]
  /\ res' = [N_simulations |-> 0, s |-> 1, stressAll |-> 0]
  /\ loc' = [holders |-> {}, unprotected |-> FALSE, handed |-> <<>>]
  /\ pc' = "starting"

\* main: threads[i].start() for i in range(options.threads)
StartThread ==
  /\ pc = "starting"
  /\ IF arg.i < arg.threads
       THEN /\ self' = [self EXCEPT ![arg.i + 1].at = "run"]
            /\ arg' = [arg EXCEPT !.i = @ + 1]
            /\ pc' = pc
       ELSE /\ arg' = [arg EXCEPT !.i = 0]
            /\ pc' = "joining"
            /\ self' = self
  /\ UNCHANGED <<res, loc>>

\* main: threads[i].join() for i in range(options.threads)
JoinThread ==
  /\ pc = "joining"
  /\ IF arg.i < arg.threads
       THEN /\ self[arg.i + 1].at = "done"
            /\ arg' = [arg EXCEPT !.i = @ + 1]
            /\ pc' = pc
       ELSE /\ pc' = "finished"
            /\ arg' = arg
  /\ UNCHANGED <<self, res, loc>>

Workers == IF pc \in {"starting", "joining", "finished"} THEN DOMAIN self ELSE {}

\* s.acquire() by thread t
Acquire(t, from, to) ==
  /\ self[t].at = from
  /\ acquire(res.s).enabled
  /\ res' = [res EXCEPT !.s = acquire(res.s).value]
  /\ loc' = [loc EXCEPT !.holders = @ \cup {t}]
  /\ self' = [self EXCEPT ![t].at = to]
  /\ UNCHANGED <<pc, arg>>

\* s.release() by thread t
Release(t, from, to) ==
  /\ self[t].at = from
  /\ res' = [res EXCEPT !.s = release(res.s)]
  /\ loc' = [loc EXCEPT !.holders = @ \ {t}]
  /\ self' = [self EXCEPT ![t].at = to]
  /\ UNCHANGED <<pc, arg>>

\* statements of thread t that touch no global
Local(t, from, to) ==
  /\ self[t].at = from
  /\ self' = [self EXCEPT ![t].at = to]
  /\ UNCHANGED <<pc, arg, res, loc>>

\* thread t reads or writes a global
Touched(t) == [loc EXCEPT !.unprotected = @ \/ t \notin loc.holders]

\* conv=converged() by thread t
Converged(t, from, to) ==
  /\ self[t].at = from
  /\ self' = [self EXCEPT ![t].conv = converged(res.N_simulations, arg.max), ![t].at = to]
  /\ loc' = Touched(t)
  /\ UNCHANGED <<pc, arg, res>>

\* myThread.run; the test of the while loop is taken with the release
\* before it
run(t) ==
  \/ Acquire(t, "run", "run_converged")
  \/ Converged(t, "run_converged", "run_release")
  \/ Release(t, "run_release", IF self[t].conv THEN "done" ELSE "doSim")
  \/ Acquire(t, "loop", "loop_converged")
  \/ Converged(t, "loop_converged", "loop_release")
  \/ Release(t, "loop_release", IF self[t].conv THEN "done" ELSE "doSim")

\* me=getLoadcase(): N_simulations+=1 (read, then write) and return
getLoadcase(t) ==
  \/ /\ self[t].at = "getLoadcase"
     /\ self' = [self EXCEPT ![t].tmp = res.N_simulations, ![t].at = "getLoadcase_store"]
     /\ loc' = Touched(t)
     /\ UNCHANGED <<pc, arg, res>>
  \/ /\ self[t].at = "getLoadcase_store"
     /\ res' = [res EXCEPT !.N_simulations = getLoadcase_increment(self[t].tmp)]
     /\ self' = [self EXCEPT ![t].tmp = 0, ![t].at = "getLoadcase_return"]
     /\ loc' = Touched(t)
     /\ UNCHANGED <<pc, arg>>
  \/ /\ self[t].at = "getLoadcase_return"
     /\ self' = [self EXCEPT ![t].me = res.N_simulations, ![t].at = "load_isfile"]
     /\ loc' = [Touched(t) EXCEPT !.handed = Append(@, res.N_simulations)]
     /\ UNCHANGED <<pc, arg, res>>

\* the try block of doSim; stressAll[i]=np.append(...) reads, then writes
fitting(t) ==
  \/ /\ self[t].at = "fit_try"
     /\ \E raised \in BOOLEAN :
          self' = [self EXCEPT ![t].tmp = IF raised THEN 0 ELSE res.stressAll,
                               ![t].at = IF raised THEN "fit_except" ELSE "fit_store"]
     /\ loc' = Touched(t)
     /\ UNCHANGED <<pc, arg, res>>
  \/ /\ self[t].at = "fit_store"
     /\ res' = [res EXCEPT !.stressAll = self[t].tmp + 1]
     /\ self' = [self EXCEPT ![t].tmp = 0, ![t].at = "fit_fit"]
     /\ loc' = Touched(t)
     /\ UNCHANGED <<pc, arg>>
  \/ /\ self[t].at = "fit_fit"
     /\ \E raised \in BOOLEAN :
          self' = [self EXCEPT ![t].at = IF raised THEN "fit_except" ELSE "fit_release"]
     /\ loc' = Touched(t)
     /\ UNCHANGED <<pc, arg, res>>
  \/ /\ self[t].at = "fit_except"
     /\ res' = [res EXCEPT !.s = releaseOnFailure(res.s)]
     /\ loc' = [loc EXCEPT !.holders = @ \ {t}]
     /\ self' = [self EXCEPT ![t].at = "loop"]
     /\ UNCHANGED <<pc, arg>>
  \/ Release(t, "fit_release", "loop")

\* doSim.  A file may exist from an earlier sweep; every external command
\* returns.  Reading the table and interpolating the yield stress touch no
\* global and are taken with the release before them.
doSim(t) ==
  \/ Acquire(t, "doSim", "getLoadcase")
  \/ getLoadcase(t)
  \/ Release(t, "load_isfile", "sim")
  \/ Acquire(t, "sim", "sim_isfile")
  \/ \E isfile \in BOOLEAN :
       Release(t, "sim_isfile", IF isfile THEN "post" ELSE "sim_execute")
  \/ Local(t, "sim_execute", "post")
  \/ Acquire(t, "post", "post_isfile")
  \/ \E isfile \in BOOLEAN :
       Release(t, "post_isfile", IF isfile THEN "read" ELSE "post_execute")
  \/ Local(t, "post_execute", "read")
  \/ Acquire(t, "read", "read_release")
  \/ Release(t, "read_release", "labels")
  \/ Acquire(t, "labels", "labels_release")
  \/ Release(t, "labels_release", "fit")
  \/ Acquire(t, "fit", "fit_try")
  \/ fitting(t)

Worker(t) == run(t) \/ doSim(t)

NextSweep == StartSweep \/ StartThread \/ JoinThread \/ \E t \in Workers : Worker(t)
SpecSweep == Init /\ [][NextSweep]_vars

\* every thread that can take a step eventually takes one
SpecSweepFair ==
  SpecSweep /\ WF_vars(StartThread) /\ WF_vars(JoinThread)
            /\ \A t \in 1..MaxThreads : WF_vars(t \in Workers /\ Worker(t))

Sweeping == pc \in {"starting", "joining", "finished"}

\* C22: no worker reads or writes N_simulations or stressAll without
\* holding the semaphore, and at most one worker holds it at any time.
C22_GlobalsUnderSemaphore ==
  Sweeping => (~loc.unprotected /\ Cardinality(loc.holders) <= 1 /\ res.s \in {0, 1})

\* one worker is in its try block with stressAll read while another has
\* been handed an index and waits
C22_Witness ==
  /\ Sweeping
  /\ \E t, u \in Workers :
       /\ t # u
       /\ self[t].at = "fit_store"
       /\ self[u].me > 0
       /\ loc.holders = {t}
  /\ res.stressAll > 0


\* C25: the number of simulations started, N_simulations, never exceeds
\* options.max.
C25_AtMostMaxSimulations ==
  Sweeping => res.N_simulations <= arg.max

\* what holds instead: every worker can start one simulation more after
\* the test that let it in
C25_AtMostMaxPlusThreads ==
  Sweeping => res.N_simulations <= arg.max + arg.threads - 1

C28_ReleasedAndTerminates ==
  /\ [](Sweeping => (res.s \in {0, 1} /\ (loc.holders = {} => res.s = 1)))
  /\ [](pc = "finished" =>
          (res.s = 1 /\ \A t \in Workers : self[t].at = "done"
             /\ res.N_simulations >= arg.max))
  /\ (pc = "starting") ~> (pc = "finished")

\* the run has ended after a fit that failed and one that did not
C28_Witness ==
  /\ pc = "finished"
  /\ Len(loc.handed) = 2
  /\ res.stressAll = 1
  /\ arg.threads = 2


(* --------------------------- asAxisAngle ------------------------------ *)
\* the rational or the irrational part of a component, whichever is there
Part(p) == IF p[2] # 0 THEN p[2] ELSE p[1]

\* iszero(qu[1]**2+qu[2]**2+qu[3]**2): the vector part is exactly zero, or
\* no smaller than the sine of half the smallest inexact angle
iszero_vector(rotation) ==
  \A n \in 2..4 : rotation.quaternion[n] = RZero

\* 2.0 * np.arccos(np.clip(qu[0],-1.0,1.0)) in units of pi/6, for a real
\* part that is the cosine of an exact half angle
arccos2(rotation) ==
  IF rotation.trig # NoTrig THEN rotation.trig
  ELSE [k |-> CHOOSE k \in ExactHalfAngles :
                /\ RScale(2, rotation.quaternion[1]) = RScale(rotation.den, cos_half(k).c)
                /\ cos_half(k).c[2] # 0 => cos_half(k).d = rotation.d,
        m |-> 0]

\* qu2ax: the axis as integer numerators over den, the angle in radians
qu2ax(rotation) ==
  LET v == <<Part(rotation.quaternion[2]), Part(rotation.quaternion[3]),
             Part(rotation.quaternion[4])>>
  IN  IF iszero_vector(rotation)
        THEN [v |-> <<0, 0, 1>>, den |-> 1, angle |-> [k |-> 0, m |-> 0]]
      ELSE IF rotation.quaternion[1] # RZero
        THEN [v |-> [n \in 1..3 |-> Sgn(RSign(rotation.d, rotation.quaternion[1])) * v[n]],
              den |-> Isqrt(norm2(v, 3)),
              angle |-> arccos2(rotation)]
        ELSE [v |-> v, den |-> Isqrt(norm2(v, 3)), angle |-> [k |-> 6, m |-> 0]]

\* np.degrees of an angle
degrees_of(angle) == [angle EXCEPT !.m = @ - 1]

\* Rotation.asAxisAngle
asAxisAngle(rotation, degrees, pair) ==
  LET ax0 == qu2ax(rotation)
      ax == IF degrees THEN [ax0 EXCEPT !.angle = degrees_of(@)] ELSE ax0
  IN  IF pair
        THEN [packaging |-> "tuple", v |-> ax.v, den |-> ax.den, angle |-> degrees_of(ax.angle)]
        ELSE [packaging |-> "array", v |-> ax.v, den |-> ax.den, angle |-> ax.angle]

\* asAxisAngle of the rotation that fromAxisAngle returned
CallAsAxisAngle ==
  /\ pc = "fromAxisAngle"
  /\ res.kind = "Rotation"
  /\ \E degrees \in BOOLEAN, pair \in BOOLEAN :
       /\ pc' = "asAxisAngle"
       /\ loc' = [rotation |-> res.rotation, degrees |-> degrees, pair |-> pair]
       /\ res' = asAxisAngle(res.rotation, degrees, pair)
  /\ UNCHANGED <<self, arg>>

NextAsAxisAngle == CallFromAxisAngle \/ CallAsAxisAngle

SpecAsAxisAngle == Init /\ [][NextAsAxisAngle]_vars

\* the angle of the rotation in radians, as fromAxisAngle converted it
AngleGiven == IF arg.degrees THEN [arg.angleAxis.angle EXCEPT !.m = @ + 1]
              ELSE arg.angleAxis.angle

\* two angles are the same number: zero is zero in every unit
SameAngle(a, b) == a = b \/ (a.k = 0 /\ b.k = 0)

\* C26: asAxisAngle reports the angle in radians when degrees is false and
\* in degrees when degrees is true, whatever pair is: the tuple and the
\* array carry the same angle.
C26_AngleUnitFollowsDegrees ==
  pc = "asAxisAngle" =>
    /\ SameAngle(res.angle, IF loc.degrees THEN degrees_of(AngleGiven) ELSE AngleGiven)
    /\ SameAngle(res.angle, asAxisAngle(loc.rotation, loc.degrees, FALSE).angle)

\* what holds instead: the array follows degrees, the tuple is converted
\* to degrees once more
C26_TupleConvertedAgain ==
  pc = "asAxisAngle" /\ res.angle.k # 0 =>
    /\ res.angle.k = AngleGiven.k
    /\ res.angle.m = AngleGiven.m - (IF loc.degrees THEN 1 ELSE 0) - (IF loc.pair THEN 1 ELSE 0)


(* --------------------- a search that nothing stops -------------------- *)
\* Orientation(Rotation(np.zeros(4)), lattice): Rotation.__init__ keeps the
\* array it is given without a check, Orientation.__init__ keeps a Rotation
\* as it is
NewOrientationUnchecked ==
  /\ pc = "idle"
  /\ \E lattice \in Lattices :
       /\ pc' = "constructed"
       /\ self' = [class |-> "Orientation",
                   rotation |-> <<RZero, RZero, RZero, RZero>>,
                   lattice |-> lattice]
  /\ UNCHANGED <<arg, loc, res>>

NextExhausted == NewOrientationUnchecked \/ CallDisorientation

SpecExhausted == Init /\ [][NextExhausted]_vars

\* no candidate of the call passes the test of the loop
NonePasses ==
  \A p \in Positions(self, arg.SST) :
    ~breakerTest(self, arg.other, arg.SST,
                 Candidate(Radicand(symmetry(self.lattice)), equivalent(self),
                           equivalent(arg.other), p[1], p[2], p[3]))

\* the position of the last candidate of the call
LastPosition ==
  LET n == Len(symQuats(symmetry(self.lattice)))
  IN  <<IF arg.SST THEN n - 1 ELSE 0, n - 1, 1>>

MaxGrid == 2

\* An option is a string, held as the sequence of its characters.  A number
\* is num/den with den a power of ten.
Digits == <<"0", "1", "2", "3", "4", "5", "6", "7", "8", "9">>

DigitValue(c) == CHOOSE v \in 0..9 : Digits[v + 1] = c

IsDigit(c) == \E v \in 0..9 : Digits[v + 1] = c

\* the number a sequence of digits spells
RECURSIVE Spelled(_)
Spelled(digits) ==
  IF digits = <<>> THEN 0
  ELSE 10 * Spelled(SubSeq(digits, 1, Len(digits) - 1)) + DigitValue(digits[Len(digits)])

RECURSIVE Power10(_)
Power10(n) == IF n = 0 THEN 1 ELSE 10 * Power10(n - 1)

\* n.translate(None,'xX'): every x and X is taken out
translate(n) == SelectSeq(n, LAMBDA c : c \notin {"x", "X"})

\* float(s) for a string of digits, '.', '-' and '+': an optional sign,
\* then digits with at most one point and at least one digit.  Anything
\* else raises ValueError (ok is false).
float(s) ==
  LET signed   == Len(s) > 0 /\ s[1] \in {"-", "+"}
      unsigned == IF signed THEN Tail(s) ELSE s
      points   == {p \in 1..Len(unsigned) : unsigned[p] = "."}
      digits   == SelectSeq(unsigned, LAMBDA c : c # ".")
      decimals == IF points = {} THEN 0
                  ELSE Len(unsigned) - (CHOOSE p \in points : TRUE)
  IN  IF /\ Len(digits) > 0
         /\ \A p \in 1..Len(digits) : IsDigit(digits[p])
         /\ Cardinality(points) <= 1
        THEN [ok |-> TRUE,
              num |-> (IF signed /\ s[1] = "-" THEN -1 ELSE 1) * Spelled(digits),
              den |-> Power10(decimals)]
        ELSE [ok |-> FALSE, num |-> 0, den |-> 1]

\* n[-1].lower() == 'x'
endsInX(n) == n[Len(n)] \in {"x", "X"}

\* round of Python 2 for num/den: to the nearest integer, halves away from
\* zero
round(num, den) ==
  IF num >= 0 THEN (2 * num + den) \div (2 * den)
  ELSE 0 - ((2 * (0 - num) + den) \div (2 * den))

\* one element of the list of line 152, before the array is built
gridElement(o, n) ==
  LET f == float(translate(n))
  IN  IF endsInX(n) THEN round(o * f.num, f.den) ELSE round(f.num, f.den)

\* mutant of sizeElement: the factor is not applied
sizeElement_absoluteOnly(o, n) ==
  LET f == float(translate(n))
  IN  [num |-> f.num, den |-> f.den]

\* one element of the list of line 153; o is a number num/den
sizeElement(o, n) ==
  LET f == float(translate(n))
  IN  IF endsInX(n) THEN [num |-> o.num * f.num, den |-> o.den * f.den]
      ELSE [num |-> f.num, den |-> f.den]

\* lines 152 and 154 for one axis
newGrid(o, n) == IF gridElement(o, n) <= 0 THEN o ELSE gridElement(o, n)

\* lines 153 and 155 for one axis
newSize(o, n) == IF sizeElement(o, n).num <= 0 THEN o ELSE sizeElement(o, n)

\* lines 157-164 for one axis: the list multiplicity[j]
multiplicity(old, new) ==
  [i \in 1..old |-> ((i * new) \div old) - (((i - 1) * new) \div old)]

RECURSIVE SumSeq(_)
SumSeq(s) == IF s = <<>> THEN 0 ELSE s[1] + SumSeq(Tail(s))

\* numpy.repeat along one axis: the old index (from 1) that the new index p
\* (from 1) repeats
repeated(m, p) == CHOOSE i \in 1..Len(m) : SumSeq(SubSeq(m, 1, i - 1)) < p /\ p <= SumSeq(SubSeq(m, 1, i))

\* the flat microstructure read from the file: point number i holds i
microstructureRead(grid) == [i \in 1..(grid[1] * grid[2] * grid[3]) |-> i]

\* lines 166-171: reshape(info['grid'],order='F') and the three repeats;
\* the array is held by its shape and, in Fortran order, its elements
microstructureRepeated(flat, grid, m) ==
  LET shape == <<SumSeq(m[1]), SumSeq(m[2]), SumSeq(m[3])>>
  IN  [shape |-> shape,
       flat  |-> [p \in 1..(shape[1] * shape[2] * shape[3]) |->
                    LET x == ((p - 1) % shape[1]) + 1
                        y == (((p - 1) \div shape[1]) % shape[2]) + 1
                        z == ((p - 1) \div (shape[1] * shape[2])) + 1
                    IN  flat[repeated(m[1], x)
                             + grid[1] * ((repeated(m[2], y) - 1)
                                          + grid[2] * (repeated(m[3], z) - 1))]]]

\* lines 206-207: reshape((info['grid'][0],info['grid'][1]*info['grid'][2]),
\* order='F').transpose() and data_writeArray: the rows written, or the
\* ValueError of reshape when the number of elements is another
dataWritten(array, grid) ==
  IF Len(array.flat) # grid[1] * grid[2] * grid[3]
    THEN [kind |-> "ValueError", rows |-> <<>>]
    ELSE [kind |-> "written",
          rows |-> [r \in 1..(grid[2] * grid[3]) |->
                      [a \in 1..grid[1] |-> array.flat[(r - 1) * grid[1] + a]]]]

\* the body of the loop over the files for one file: info as its header
\* gives it, the options of the command line
rescale(info, options) ==
  IF \E j \in 1..3 : info.grid[j] < 1
    THEN [kind |-> "invalid grid a b c."]
  ELSE IF \E j \in 1..3 : info.size[j].num <= 0
    THEN [kind |-> "invalid size x y z."]
  ELSE IF \E j \in 1..3 : ~float(translate(options.grid[j])).ok
                           \/ ~float(translate(options.size[j])).ok
    THEN [kind |-> "ValueError"]
  ELSE
    LET grid == [j \in 1..3 |-> newGrid(info.grid[j], options.grid[j])]
        size == [j \in 1..3 |-> newSize(info.size[j], options.size[j])]
        m    == [j \in 1..3 |-> multiplicity(info.grid[j], grid[j])]
    IN  [kind |-> "rescaled",
         newInfo |-> [grid |-> grid, size |-> size],
         multiplicity |-> m,
         microstructure |-> microstructureRepeated(microstructureRead(info.grid), info.grid, m)]

\* lines 183-207 with the locals l of a file that was rescaled: the header
\* written and the data written after it
written(info, l) ==
  IF \E j \in 1..3 : l.newInfo.grid[j] < 1
    THEN [kind |-> "invalid new grid a b c.", header |-> <<>>, rows |-> <<>>]
  ELSE IF \E j \in 1..3 : l.newInfo.size[j].num <= 0
    THEN [kind |-> "invalid new size x y z.", header |-> <<>>, rows |-> <<>>]
  ELSE [kind   |-> dataWritten(l.microstructure, info.grid).kind,
        header |-> [grid |-> l.newInfo.grid, size |-> l.newInfo.size],
        rows   |-> dataWritten(l.microstructure, info.grid).rows]


\* options of the command line: the defaults, absolute values, relative
\* factors with x and with X, values that are not positive, a string that
\* is no number
OptionStrings ==
  { <<"0">>, <<"0", ".", "0">>, <<"1">>, <<"2">>, <<"3">>, <<"2", ".", "5">>,
    <<"2", "x">>, <<"2", "X">>, <<"1", ".", "5", "x">>, <<".", "5", "x">>,
    <<"-", "1">>, <<"-", "2", "x">>, <<"x">> }

\* the options of the other axes: the defaults, or a factor for every axis
OptionBases == { [j \in 1..3 |-> <<"0">>], [j \in 1..3 |-> <<"2", "x">>] }

\* headers: every grid up to MaxGrid points an axis and one without points,
\* with a unit box or a box of 0.5 x 2 x 3
Headers ==
  [grid : [1..3 -> 1..MaxGrid] \cup {<<0, 1, 1>>},
   size : { [j \in 1..3 |-> [num |-> 1, den |-> 1]],
            <<[num |-> 5, den |-> 10], [num |-> 2, den |-> 1], [num |-> 3, den |-> 1]>> }]

\* one file run through geom_rescale
CallRescale ==
  /\ pc = "idle"
  /\ \E info \in Headers, base \in OptionBases, j \in 1..3,
        n \in OptionStrings, m \in OptionStrings :
       /\ pc' = "geom_rescale"
       /\ arg' = [info |-> info,
                  options |-> [grid |-> [base EXCEPT ![j] = n],
                               size |-> [[k \in 1..3 |-> <<"0", ".", "0">>] EXCEPT ![j] = m]]]
       /\ loc' = rescale(arg'.info, arg'.options)
       /\ res' = IF loc'.kind = "rescaled" THEN written(arg'.info, loc')
                 ELSE [kind |-> loc'.kind, header |-> <<>>, rows |-> <<>>]
  /\ UNCHANGED self

NextRescale == CallRescale

SpecRescale == Init /\ [][NextRescale]_vars

Rescaled == pc = "geom_rescale" /\ loc.kind = "rescaled"

\* the number an option spells once a final x or X is set aside
Spelt(n, suffixes) ==
  float(IF n[Len(n)] \in suffixes THEN SubSeq(n, 1, Len(n) - 1) ELSE n)

\* g is the integer nearest to num/den
Nearest(g, num, den) == 2 * g * den - den <= 2 * num /\ 2 * num <= 2 * g * den + den

\* the reading of the options in which the letters of suffixes mark a
\* relative factor: per axis the value wanted is old times the factor or
\* the number given, for the grid the nearest integer of it, and the new
\* value is the value wanted if that is positive, the old value otherwise
OptionsRead(suffixes) ==
  \A j \in 1..3 :
    LET og == arg.info.grid[j]
        os == arg.info.size[j]
        ng == loc.newInfo.grid[j]
        ns == loc.newInfo.size[j]
        fg == Spelt(arg.options.grid[j], suffixes)
        fs == Spelt(arg.options.size[j], suffixes)
        gn == IF arg.options.grid[j][Len(arg.options.grid[j])] \in suffixes
                THEN og * fg.num ELSE fg.num
        sn == IF arg.options.size[j][Len(arg.options.size[j])] \in suffixes
                THEN os.num * fs.num ELSE fs.num
        sd == IF arg.options.size[j][Len(arg.options.size[j])] \in suffixes
                THEN os.den * fs.den ELSE fs.den
    IN  /\ fg.ok /\ fs.ok
        /\ IF 2 * gn < fg.den THEN ng = og ELSE Nearest(ng, gn, fg.den)
        /\ IF sn <= 0 THEN ns = os ELSE ns.num * sd = sn * ns.den

\* C24 as it is written: an option ending in 'x' is a relative factor, any
\* other option is the absolute new value; a value that is not positive
\* keeps the old value of the axis.
C24_RelativeWithLowerX == Rescaled => OptionsRead({"x"})

\* C24: an option ending in 'x' or in 'X' is a relative factor multiplied
\* with the old value, any other option is the absolute new value, for the
\* grid rounded to an integer; whenever the resulting value is <= 0 the old
\* value of the axis is kept.
C24_RelativeWithXOfEitherCase == Rescaled => OptionsRead({"x", "X"})

\* a grid of 2 stretched by 1.5x to 3 while a size given as -1 stays as
\* it was
C24_Witness ==
  /\ Rescaled
  /\ \E j \in 1..3 :
       /\ arg.options.grid[j] = <<"1", ".", "5", "x">>
       /\ arg.info.grid[j] = 2 /\ loc.newInfo.grid[j] = 3
       /\ arg.options.size[j] = <<"-", "1">>
       /\ loc.newInfo.size[j] = arg.info.size[j]
  /\ \E j \in 1..3 : arg.options.grid[j] = <<"0">> /\ loc.newInfo.grid[j] = arg.info.grid[j]

\* the repeat counts: one entry for every old grid point, none negative,
\* their sum the new grid of the axis; the array has one element for every
\* point of the new grid
CountsAndElements ==
  /\ \A j \in 1..3 :
       /\ Len(loc.multiplicity[j]) = arg.info.grid[j]
       /\ \A i \in 1..Len(loc.multiplicity[j]) : loc.multiplicity[j][i] >= 0
       /\ SumSeq(loc.multiplicity[j]) = loc.newInfo.grid[j]
  /\ Len(loc.microstructure.flat)
       = loc.newInfo.grid[1] * loc.newInfo.grid[2] * loc.newInfo.grid[3]

\* C30: the repeat counts have one non-negative entry for every old grid
\* point and sum to the new grid of their axis, the rescaled microstructure
\* has newGrid[0]*newGrid[1]*newGrid[2] entries, and the data are written
\* as newGrid[1]*newGrid[2] rows of newGrid[0] values under a header that
\* announces the new grid.
C30_WrittenWithNewGrid ==
  Rescaled =>
    /\ CountsAndElements
    /\ res.kind = "written"
    /\ res.header.grid = loc.newInfo.grid
    /\ Len(res.rows) = loc.newInfo.grid[2] * loc.newInfo.grid[3]
    /\ \A r \in 1..Len(res.rows) : Len(res.rows[r]) = loc.newInfo.grid[1]

\* what holds instead: counts and elements are as said, the rows are those
\* of the old grid, and a new grid with another number of points ends in
\* the ValueError of reshape
C30_WrittenWithOldGrid ==
  Rescaled =>
    /\ CountsAndElements
    /\ res.header.grid = loc.newInfo.grid
    /\ IF Len(loc.microstructure.flat) = arg.info.grid[1] * arg.info.grid[2] * arg.info.grid[3]
         THEN /\ res.kind = "written"
              /\ Len(res.rows) = arg.info.grid[2] * arg.info.grid[3]
              /\ \A r \in 1..Len(res.rows) : Len(res.rows[r]) = arg.info.grid[1]
         ELSE res.kind = "ValueError" /\ res.rows = <<>>


(* ------------------- quaternion -> matrix -> quaternion ---------------- *)
\* The operators of the symmetry tables are taken through asMatrix and
\* fromMatrix.  Their components are 0, 1/2, 1 and 0.5*np.sqrt(d) up to
\* sign, held in units of 1/2.  In binary64 0.5*np.sqrt(2) is
\* 0.7071067811865476 and its square 0.5000000000000001 = 1/2 + 2^-53;
\* 0.5*np.sqrt(3) is 0.8660254037844386 and its square 0.7499999999999999
\* = 3/4 - 2^-53; the other squares are exact.  The sums of lines 1088-1089
\* are exact for these values, so a diagonal element of the matrix is its
\* exact value plus a whole number of units of 2^-53, which is held in u.

\* fl(x**2) - x**2 in units of 2^-53 for a component x (in units of 1/2)
square_error(d, x) == IF x[2] = 0 THEN 0 ELSE IF d = 3 THEN -1 ELSE 1

\* the sign bit of a*b + s*c*e when both products are zero: a zero product
\* is negative if one factor is negative, the sum of two zeros is negative
\* if both are
zero_is_negative(d, a, b, c, e, s) ==
  /\ RMul(d, a, b) = RZero /\ RMul(d, c, e) = RZero
  /\ (RSign(d, a) < 0) # (RSign(d, b) < 0)
  /\ IF s > 0 THEN (RSign(d, c) < 0) # (RSign(d, e) < 0)
              ELSE (RSign(d, c) < 0) = (RSign(d, e) < 0)

\* 2.0*(a*b + s*c*e) in units of 1/4
off_diagonal(d, a, b, c, e, s) ==
  [v |-> RScale(2, RAdd(RMul(d, a, b), RScale(s, RMul(d, c, e)))),
   u |-> 0,
   negZero |-> zero_is_negative(d, a, b, c, e, s)]

\* qq + 2.0*qu[i]**2 in units of 1/4
diagonal(d, qu, i) ==
  LET qq == RSub(RMul(d, qu[1], qu[1]),
                 RAdd(RAdd(RMul(d, qu[2], qu[2]), RMul(d, qu[3], qu[3])), RMul(d, qu[4], qu[4])))
      qe == square_error(d, qu[1])
            - (square_error(d, qu[2]) + square_error(d, qu[3]) + square_error(d, qu[4]))
  IN  [v |-> RAdd(qq, RScale(2, RMul(d, qu[i], qu[i]))),
       u |-> qe + 2 * square_error(d, qu[i]),
       negZero |-> FALSE]

\* the matrix of lines 1088-1096 before the return
qu2om_passive(d, qu) ==
  << << diagonal(d, qu, 2),
        off_diagonal(d, qu[2], qu[3], qu[1], qu[4], -1),
        off_diagonal(d, qu[2], qu[4], qu[1], qu[3], 1) >>,
     << off_diagonal(d, qu[3], qu[2], qu[1], qu[4], 1),
        diagonal(d, qu, 3),
        off_diagonal(d, qu[3], qu[4], qu[1], qu[2], -1) >>,
     << off_diagonal(d, qu[4], qu[2], qu[1], qu[3], -1),
        off_diagonal(d, qu[4], qu[3], qu[1], qu[2], 1),
        diagonal(d, qu, 4) >> >>

\* qu2om: om if P > 0.0 else om.T
qu2om(d, qu) ==
  IF P > 0 THEN qu2om_passive(d, qu)
  ELSE [i \in 1..3 |-> [j \in 1..3 |-> qu2om_passive(d, qu)[j][i]]]

\* Angles are whole multiples of pi/2 for the classes with sqrt(2) and of
\* pi/3 for the hexagonal class; Half(d) is the number of units of pi.
Half(d) == IF d = 3 THEN 3 ELSE 2

\* np.cos(j * pi/6) and np.sin(j * pi/6) in units of 1/2, in Z[sqrt 3]
cos_sixth(j) ==
  CASE j % 12 = 0 -> <<2, 0>>
    [] j % 12 \in {1, 11} -> <<0, 1>>
    [] j % 12 \in {2, 10} -> <<1, 0>>
    [] j % 12 \in {3, 9} -> <<0, 0>>
    [] j % 12 \in {4, 8} -> <<-1, 0>>
    [] j % 12 \in {5, 7} -> <<0, -1>>
    [] j % 12 = 6 -> <<-2, 0>>

sin_sixth(j) == cos_sixth(j + 9)

\* cosine and sine of k units of angle, in units of 1/2
cos_angle(d, k) == IF d = 3 THEN cos_sixth(2 * k + 12) ELSE cos_quarter(2 * k + 8)

sin_angle(d, k) == IF d = 3 THEN sin_sixth(2 * k + 12) ELSE sin_quarter(2 * k + 8)

\* -x for an element of the matrix
negative(x) == [v |-> RNeg(x.v), u |-> 0 - x.u, negZero |-> x.v = RZero /\ ~x.negZero]

\* np.arctan2(y, x) in units of angle: for two zeros the sign bits decide,
\* otherwise the angle in (-pi, pi] of the direction (x, y); arctan2 of
\* (-0.0, x < 0) is -pi, which the reduction of line 1190 turns into pi
arctan2(d, y, x) ==
  IF y.v = RZero /\ x.v = RZero
    THEN IF x.negZero THEN (IF y.negZero THEN 0 - Half(d) ELSE Half(d)) ELSE 0
    ELSE CHOOSE k \in (1 - Half(d))..Half(d) :
           /\ RMul(d, y.v, cos_angle(d, k)) = RMul(d, x.v, sin_angle(d, k))
           /\ RSign(d, RAdd(RMul(d, x.v, cos_angle(d, k)), RMul(d, y.v, sin_angle(d, k)))) > 0

\* abs(om[2,2]) < 1.0
below_one(d, x) ==
  \/ RSign(d, RSub(RAbs(d, x.v), RInt(4))) < 0
  \/ RAbs(d, x.v) = RInt(4) /\ x.u * RSign(d, x.v) < 0

\* np.arccos(om[2,2]) in units of angle; a value 2^-53 below 1 gives
\* 1.5e-8, which moves no component of the quaternion by more than 7.5e-9
\* and is held as 0
arccos(d, x) ==
  CHOOSE k \in 0..Half(d) : cos_angle(d, k) = <<x.v[1] \div 2, 0>> /\ x.v[1] % 2 = 0

\* the reduction of line 1190
reduced_angle(k, turn) == IF k < 0 THEN (k + turn) % turn ELSE k

\* om2eu.  In the else branch om[2,2] is 1 or -1 up to 2^-52, and an angle
\* of -3.5e-16 is lost in the addition of 2 pi that reduces it
om2eu(d, om) ==
  LET eu == IF below_one(d, om[3][3])
              THEN << arctan2(d, om[3][1], negative(om[3][2])),
                      arccos(d, om[3][3]),
                      arctan2(d, om[1][3], om[2][3]) >>
              ELSE << arctan2(d, om[1][2], om[1][1]),
                      IF RSign(d, om[3][3].v) > 0 THEN 0 ELSE Half(d),
                      0 >>
  IN  << reduced_angle(eu[1], 2 * Half(d)),
         IF eu[2] < 0 THEN (eu[2] + 2 * Half(d)) % Half(d) ELSE eu[2],
         reduced_angle(eu[3], 2 * Half(d)) >>

\* eu2qu for Euler angles eu[i] * pi/3; the components are in units of 1/4
eu2qu_thirds(eu) ==
  LET cPhi == cos_sixth(eu[2])
      sPhi == sin_sixth(eu[2])
      qu == << RMul(3, cPhi, cos_sixth(eu[1] + eu[3])),
               RScale(-P, RMul(3, sPhi, cos_sixth(eu[1] - eu[3] + 12))),
               RScale(-P, RMul(3, sPhi, sin_sixth(eu[1] - eu[3] + 12))),
               RScale(-P, RMul(3, cPhi, sin_sixth(eu[1] + eu[3]))) >>
  IN  IF RSign(3, qu[1]) < 0 THEN <<RNeg(qu[1]), RNeg(qu[2]), RNeg(qu[3]), RNeg(qu[4])>> ELSE qu

\* om2qu: eu2qu(om2eu(om)), in units of 1/4
om2qu(d, om) == IF d = 3 THEN eu2qu_thirds(om2eu(d, om)) ELSE eu2qu(om2eu(d, om))

\* the determinant times 64 and the products of the rows times 16
det_of(d, om) ==
  LET m(i, j) == om[i][j].v
      minor(i, j, k, l) == RSub(RMul(d, m(2, i), m(3, j)), RMul(d, m(2, k), m(3, l)))
  IN  RAdd(RSub(RMul(d, m(1, 1), minor(2, 3, 3, 2)), RMul(d, m(1, 2), minor(1, 3, 3, 1))),
           RMul(d, m(1, 3), minor(1, 2, 2, 1)))

row_product(d, om, i, j) ==
  RAdd(RAdd(RMul(d, om[i][1].v, om[j][1].v), RMul(d, om[i][2].v, om[j][2].v)),
       RMul(d, om[i][3].v, om[j][3].v))

\* Rotation.fromMatrix = Rotation.fromBasis(om) with orthonormal = True;
\* the deviations of 1e-16 are far inside the tolerances of np.isclose
fromMatrix(d, om) ==
  IF det_of(d, om) # RInt(64)
    THEN Raised("matrix is not a proper rotation.", NoArray)
  ELSE IF \E i \in 1..3 : row_product(d, om, i, (i % 3) + 1) # RZero
    THEN Raised("matrix is not orthogonal.", NoArray)
    ELSE Returned([d |-> d, den |-> 4, quaternion |-> om2qu(d, om), trig |-> NoTrig], NoArray)

\* asMatrix of the operator that symmetryOperations returned
CallAsMatrix ==
  /\ pc = "symmetryOperator"
  /\ pc' = "asMatrix"
  /\ self' = res.rotation
  /\ loc' = qu2om(res.rotation.d, res.rotation.quaternion)
  /\ UNCHANGED <<arg, res>>

\* fromMatrix of the matrix
CallFromMatrix ==
  /\ pc = "asMatrix"
  /\ pc' = "fromMatrix"
  /\ res' = fromMatrix(self.d, loc)
  /\ UNCHANGED <<self, arg, loc>>

NextRoundTrip == CallSymmetryOperator \/ CallAsMatrix \/ CallFromMatrix

SpecRoundTrip == Init /\ [][NextRoundTrip]_vars

\* C23: the quaternion that fromMatrix makes of the matrix of a rotation is
\* the quaternion of the rotation up to global sign (within 1e-7).
C23_RoundTrip ==
  pc = "fromMatrix" =>
    /\ res.kind = "Rotation"
    /\ SameUpToSign(res.rotation.quaternion, self.quaternion)

\* what holds instead: the round trip gives the rotation back unless it is
\* a rotation about z, or a half turn about an axis normal to z, whose
\* matrix has an element om[2,2] just inside (-1, 1)
C23_RoundTripAwayFromPoles ==
  pc = "fromMatrix" =>
    /\ res.kind = "Rotation"
    /\ (RAbs(self.d, loc[3][3].v) = RInt(4) /\ below_one(self.d, loc[3][3]))
         \/ SameUpToSign(res.rotation.quaternion, self.quaternion)

====
